---- MODULE Spec2Model ----
(***************************************************************************)
(* vapor-chamber command bus: createCommandBus and createAsyncCommandBus   *)
(* (src/src/command-bus.ts).  One bus, one dispatch in flight.  A dispatch *)
(* is modelled step by step: the plugin chain goes down through each       *)
(* plugin's logic before next(), reaches the innermost execute step, comes *)
(* back up through each plugin's logic after next(), then the hook loop    *)
(* runs and dispatch returns.  In the blocking bus nothing else happens    *)
(* while a dispatch is in flight; in the asynchronous bus every await at   *)
(* which the dispatch is suspended is a point where the caller's other     *)
(* flows may call register, use, onAfter or a returned capability.         *)
(***************************************************************************)
EXTENDS Naturals, Sequences, FiniteSets, TLC

\* ---- bounds ----
\* length of the plugin list
MaxPlugins == 3
\* number of onAfter() calls
MaxHooks == 2
\* number of calls the caller's other flows make while one asynchronous
\* dispatch is suspended
MaxMidOps == 1
\* number of capabilities kept when the capabilities are recorded
MaxCaps == 3
\* length of the plugin list when the plugins are those of the examples
MaxBodyPlugins == 2
\* length of the plugin list when two dispatches are in flight together
MaxConcPlugins == 1
\* length of the plugin list when it holds a plugin of plugins.ts
MaxBuiltinPlugins == 2
\* the last reading of the clock
MaxTime == 3
\* number of createCommandBus() calls
MaxBuses == 5
\* number of dispatches on the bus of useCommandState
MaxSent == 3

\* ---- constants of the examples ----
\* const maxRetries = 3
MaxRetries == 3
\* if (failCount < 2): the first two attempts fail
FirstFailures == 2

\* ---- inputs ----
Variants == {"sync", "async"}
Actions == {"a", "b"}
Targets == {"t1"}
Payloads == {"p1"}
\* handlers given to register: H1 returns a value, HT throws
HandlerFns == {"H1", "HT"}
\* plugins given to use: P1 runs next() once and returns its Result; P2 does
\* the same unless the command's action is b, which it blocks by returning a
\* failing Result without calling next()
PluginFns == {"P1", "P2"}
\* hooks given to onAfter: K observes, KT throws
HookFns == {"K", "KT"}

\* the handlers, plugins and hooks of the examples:
\* HF fails on its first attempts and then returns a value
BodyHandlerFns == {"H1", "HT", "HF"}
\* PT changes the command in place and calls next(); PR calls next() again
\* while the Result is a failure, at most MaxRetries times; PX throws before
\* it calls next(); PY throws after next() has returned
BodyPluginFns == {"P1", "PT", "PR", "PX", "PY"}
\* KM writes to the Result it is given
BodyHookFns == {"K", "KM"}

\* ---- values ----
Undefined == <<>>
NoHandlerFn == "none"
NoCmd == [action |-> "", target |-> "", payload |-> ""]
NoResult == [ok |-> FALSE, value |-> Undefined, error |-> Undefined]

\* mutant: the value is left out of the Result
OkResult_NoValue(v) == [ok |-> TRUE, value |-> Undefined, error |-> Undefined]
OkResult(v) == [ok |-> TRUE, value |-> v, error |-> Undefined]
ErrResult(e) == [ok |-> FALSE, value |-> Undefined, error |-> e]

\* mutant: the message does not name the action
NoHandlerError_Anonymous(action) == <<"Error", "No handler: ", "">>
\* new Error(`No handler: ${action}`)
NoHandlerError(action) == <<"Error", "No handler: ", action>>

\* const cmd = { action, target, payload }
MakeCmd(action, target, payload) ==
  [action |-> action, target |-> target, payload |-> payload]

\* what a handler does with the command it is given
HandlerBody(h, cmd) ==
  IF h = "HT"
    THEN [kind |-> "throw", v |-> <<"Error", "Handler failed">>]
    ELSE [kind |-> "return", v |-> <<"value", h, cmd.target, cmd.payload>>]
NoOutcome == [kind |-> "none", v |-> Undefined]
\* the intermittently failing handler:
\* if (failCount < 2) { failCount++; throw new Error('Network error') }
\* failCount = 0; ... return user
FlakyBody(fc, cmd) ==
  IF fc < FirstFailures
    THEN [kind |-> "throw", v |-> <<"Error", "Network error">>]
    ELSE [kind |-> "return", v |-> <<"value", "HF", cmd.target, cmd.payload>>]
FlakyCount(fc) == IF fc < FirstFailures THEN fc + 1 ELSE 0
\* the outcome of handler(cmd)
HandlerOutcome(h, cmd, fc) ==
  IF h = "HF" THEN FlakyBody(fc, cmd) ELSE HandlerBody(h, cmd)

\* does the plugin call next() for this command?
PluginCallsNext(p, cmd) == p # "PX" /\ (p # "P2" \/ cmd.action # "b")
\* the Result a plugin that does not call next() returns
PluginOwnResult(p) == ErrResult(<<"Error", "Blocked">>)
\* the failure a plugin's own logic raises
PluginError(p) == <<"Error", "Plugin failed", p>>
\* Object.assign(cmd, transformed): the plugin writes to the command it was
\* given, which is the object every step of the dispatch holds
\* mutant: the plugin works on a copy of the command
Transform_Copy(p, cmd) == cmd
\* PA is (cmd, next) => { cmd.action = 'b'; return next() }
Transform(p, cmd) ==
  IF p = "PT" THEN [cmd EXCEPT !.payload = "p2"]
  ELSE IF p = "PA" THEN [cmd EXCEPT !.action = "b"]
  ELSE cmd
\* return { ok: false, error: new Error('Max retries exceeded') }
RetriesExceeded == ErrResult(<<"Error", "Max retries exceeded">>)

\* what a hook does: K returns, KT throws
HookBody(k) ==
  IF k = "KT"
    THEN [kind |-> "throw", v |-> <<"Error", "Hook error">>]
    ELSE [kind |-> "return", v |-> Undefined]
\* what a hook leaves in the Result object it was given
HookWrites(k, res) ==
  IF k = "KM" THEN [res EXCEPT !.ok = TRUE, !.value = "tampered"] ELSE res

\* ---- the plugins of plugins.ts: what they compute ----
BuiltinFns == {"validator", "history", "debounce", "throttle"}
\* targets: t1 is { id: 1 }, t2 is { id: 2 }, t2u is { id: 2, ref: undefined }
PluginTargets == {"t1", "t2", "t2u"}
\* JSON.stringify(cmd.target): a property whose value is undefined is left out
JsonStringify(t) ==
  IF t = "t1" THEN "{\"id\":1}" ELSE IF t \in {"t2", "t2u"} THEN "{\"id\":2}" ELSE t
\* const key = `${cmd.action}:${JSON.stringify(cmd.target)}`
Key(cmd) == <<cmd.action, ":", JsonStringify(cmd.target)>>
\* Map<string, V> of debounce and throttle, as its set of entries
EntryHas(m, k) == \E e \in m : e.key = k
EntryGet(m, k) == (CHOOSE e \in m : e.key = k).val
EntrySet(m, k, v) == {e \in m : e.key # k} \cup {[key |-> k, val |-> v]}
EntryDelete(m, k) == {e \in m : e.key # k}
\* const actionSet = new Set(actions): debounce(['a'], wait), throttle(['a'], wait)
ActionSet == {"a"}

\* validator({ a: (cmd) => ... }): action a has a rule, which returns null for
\* payload p1, the message 'Invalid' for p2 and the empty string for p3
NoRule == "no rule"
Rules(action, cmd) ==
  IF action # "a" THEN NoRule
  ELSE IF cmd.payload = "p2" THEN "Invalid"
  ELSE IF cmd.payload = "p3" THEN ""
  ELSE "null"
\* if (rule) { const error = rule(cmd); if (error) ...: null and the empty
\* string are falsy
\* mutant: every command whose action has a rule is rejected
Rejects_AnyRule(action, cmd) == Rules(action, cmd) # NoRule
Rejects(action, cmd) == Rules(action, cmd) \notin {NoRule, "null", ""}
\* return { ok: false, error: new Error(error) }
Rejected(action, cmd) == ErrResult(<<"Error", Rules(action, cmd)>>)

\* history({ maxSize, filter }): filter, when given, is
\* (cmd) => cmd.action === 'a'
Passes(b, cmd) == ~b.filter \/ cmd.action = "a"
\* if (result.ok && (!filter || filter(cmd))) {
\*   past.push(cmd); if (past.length > maxSize) past.shift(); future.length = 0 }
\* mutant: the oldest command is never dropped
Track_NoShift(b, cmd, result) ==
  IF result.ok /\ Passes(b, cmd)
    THEN [b EXCEPT !.past = Append(@, cmd), !.future = <<>>]
    ELSE b
\* mutant: the Result of next() is not looked at
Track_Failed(b, cmd, result) ==
  IF Passes(b, cmd)
    THEN [b EXCEPT !.past = IF Len(@) + 1 > b.maxSize
                              THEN Tail(Append(@, cmd)) ELSE Append(@, cmd),
                   !.gone = IF Len(b.past) + 1 > b.maxSize
                              THEN Head(Append(b.past, cmd)) ELSE @,
                   !.future = <<>>]
    ELSE b
Track(b, cmd, result) ==
  IF result.ok /\ Passes(b, cmd)
    THEN [b EXCEPT !.past = IF Len(@) + 1 > b.maxSize
                              THEN Tail(Append(@, cmd)) ELSE Append(@, cmd),
                   !.gone = IF Len(b.past) + 1 > b.maxSize
                              THEN Head(Append(b.past, cmd)) ELSE @,
                   !.future = <<>>]
    ELSE b
\* getState(): { past: [...past], future: [...future],
\*               canUndo: past.length > 0, canRedo: future.length > 0 }
GetState(b) ==
  [past |-> b.past, future |-> b.future,
   canUndo |-> Len(b.past) > 0, canRedo |-> Len(b.future) > 0]
\* undo(): const cmd = past.pop(); if (cmd) future.push(cmd); return cmd
\* mutant: undo takes the oldest command
Undo_Oldest(b) ==
  IF b.past = <<>> THEN [b EXCEPT !.out = Undefined]
  ELSE [b EXCEPT !.past = Tail(@), !.future = Append(@, Head(b.past)),
                 !.out = Head(b.past)]
Undo(b) ==
  IF b.past = <<>> THEN [b EXCEPT !.out = Undefined]
  ELSE [b EXCEPT !.past = SubSeq(@, 1, Len(@) - 1),
                 !.future = Append(@, b.past[Len(b.past)]),
                 !.out = b.past[Len(b.past)]]
\* redo(): const cmd = future.pop(); if (cmd) past.push(cmd); return cmd
Redo(b) ==
  IF b.future = <<>> THEN [b EXCEPT !.out = Undefined]
  ELSE [b EXCEPT !.future = SubSeq(@, 1, Len(@) - 1),
                 !.past = Append(@, b.future[Len(b.future)]),
                 !.out = b.future[Len(b.future)]]
\* clear(): past.length = 0; future.length = 0
Clear(b) == [b EXCEPT !.past = <<>>, !.future = <<>>, !.out = Undefined]

\* { ok: true, value: { pending: true, key } }
Pending(key) == OkResult([pending |-> TRUE, key |-> key])
\* { ok: true, value: { throttled: true, key, retryIn: wait - (now - last) } }
Throttled(key, retryIn) ==
  OkResult([throttled |-> TRUE, key |-> key, retryIn |-> retryIn])

\* ---- state ----
VARIABLES
  variant,     \* which factory made the bus
  handlers,    \* Map<string, Handler> as its set of entries
  plugins,     \* Plugin[]
  afterHooks,  \* Hook[]: slots [fn, reg], reg = number of the onAfter() call
  nextK,       \* number of the next onAfter() call
  d,           \* the dispatch in flight
  latest,      \* per action, the handler of the latest register call that no
               \* capability has removed since, and whether that call replaced
               \* a binding (history, kept for the properties)
  audit,       \* whether latest records the replacements
  caps,        \* the capabilities register, use and onAfter have returned to
               \* the caller (history, kept for the properties)
  failCount,   \* let failCount = 0 of the intermittently failing handler
  parked,      \* a second asynchronous dispatch in flight, suspended at an
               \* await while d runs
  builtin,     \* the clock and what the plugins of plugins.ts keep between
               \* dispatches: past, future, timers, results, lastRun
  vapor        \* the module of the Vapor integration: sharedBus and the
               \* cells of the composables made on it

vars == <<variant, handlers, plugins, afterHooks, nextK, d, latest, audit, caps,
          failCount, parked, builtin, vapor>>

NoBinding == [h |-> NoHandlerFn, over |-> FALSE]

\* the clock (Date.now(), the time base of setTimeout), the options a plugin
\* of plugins.ts was made with and the state it keeps in its closure; asked
\* out and gone are history kept for the properties: the latest dispatch of
\* each (action, target) that reached the plugin, what the latest call of
\* undo or redo returned, and the command the latest past.shift() removed
Builtin(maxSize, filter, wait, now) ==
  [maxSize |-> maxSize, filter |-> filter, wait |-> wait, now |-> now,
   past |-> <<>>, future |-> <<>>, timers |-> {}, results |-> {},
   lastRun |-> {}, asked |-> <<>>, out |-> Undefined, gone |-> Undefined]
\* no plugin of plugins.ts has been made
NoBuiltin == Builtin(0, FALSE, 0, 0)

\* let sharedBus: CommandBus | null = null.  A bus is an object; the model
\* numbers the buses createCommandBus() has returned, in the order of the
\* calls, and writes 0 for null.  made is the number of buses made so far;
\* got and lastSet are history kept for the properties: what the getCommandBus
\* calls since the latest setCommandBus have returned, and the argument of the
\* latest setCommandBus call.  ucBus is the bus the latest useCommand() call
\* took from getCommandBus (const bus = getCommandBus()), 0 before the call;
\* loading and lastError are the cells of that call, lastError <<>> for null.
\* state is the cell of useCommandState(initial, { a: reducer }), whose
\* initial value is the empty list; disposed, sent and applied are history
\* kept for the properties: whether its dispose has been called, the commands
\* of action a that dispatch was called with, and the commands its handler
\* was invoked with
\* the cells of useCommandHistory, and its options
NoHist ==
  [maxSize |-> 0, filter |-> FALSE, past |-> <<>>, future |-> <<>>,
   canUndo |-> FALSE, canRedo |-> FALSE]
NoVapor ==
  [sharedBus |-> 0, made |-> 0, got |-> <<>>, lastSet |-> <<>>, ucBus |-> 0,
   loading |-> FALSE, lastError |-> <<>>,
   state |-> <<>>, disposed |-> FALSE, sent |-> <<>>, applied |-> <<>>,
   hist |-> NoHist]

Ev(ev, who, reg, cmd, res) ==
  [ev |-> ev, who |-> who, reg |-> reg, cmd |-> cmd, res |-> res]

IdleFlow ==
  [pc |-> "idle", args |-> <<>>, used |-> <<>>, bound |-> NoBinding, cmd |-> NoCmd, handler |-> NoHandlerFn,
   chain |-> <<>>, tries |-> <<>>, depth |-> 0, dir |-> "down", result |-> NoResult,
   pending |-> NoOutcome, awaited |-> FALSE, susp |-> FALSE, thrown |-> Undefined, hookIdx |-> 0, notify |-> <<>>, mid |-> 0, trace |-> <<>>, sink |-> <<>>,
   returned |-> NoResult]

\* ---- Map ----
\* handlers.get(action)
MapHas(m, a) == \E e \in m : e.action = a
MapGet(m, a) ==
  IF MapHas(m, a) THEN (CHOOSE e \in m : e.action = a).handler ELSE NoHandlerFn
\* handlers.set(action, handler)
\* mutant: an action that is bound keeps its handler
MapSet_Keep(m, a, h) ==
  IF MapHas(m, a) THEN m ELSE m \cup {[action |-> a, handler |-> h]}
MapSet(m, a, h) ==
  {e \in m : e.action # a} \cup {[action |-> a, handler |-> h]}
\* handlers.delete(action)
\* mutant: the entry stays
MapDelete_Keep(m, a) == m
MapDelete(m, a) == {e \in m : e.action # a}

\* ---- arrays ----
Front(s) == SubSeq(s, 1, Len(s) - 1)
Last(s) == s[Len(s)]
\* Array.prototype.indexOf, 1-based, 0 when absent
IndexOf(s, f) ==
  IF \E i \in 1..Len(s) : s[i] = f
    THEN CHOOSE i \in 1..Len(s) : s[i] = f /\ \A j \in 1..(i - 1) : s[j] # f
    ELSE 0
\* Array.prototype.splice(i, 1)
Splice(s, i) == SubSeq(s, 1, i - 1) \o SubSeq(s, i + 1, Len(s))
\* if (i !== -1) splice(i, 1)
Remove(s, f) == IF IndexOf(s, f) = 0 THEN s ELSE Splice(s, IndexOf(s, f))

\* afterHooks holds the hook functions; the model numbers the onAfter() calls
\* and keeps with each element the number of the call that pushed it
Fns(s) == [i \in 1..Len(s) |-> s[i].fn]
Regs(s) == {s[i].reg : i \in 1..Len(s)}
SlotOf(s, r) == s[CHOOSE i \in 1..Len(s) : s[i].reg = r]
\* afterHooks.indexOf(hook) and the splice
RemoveHook(s, f) ==
  IF IndexOf(Fns(s), f) = 0 THEN s ELSE Splice(s, IndexOf(Fns(s), f))

\* plugins.reduceRight((next, plugin) => () => plugin(cmd, next), execute):
\* the wrappers of the chain, outermost first
RECURSIVE ReduceRight(_, _)
ReduceRight(ps, acc) ==
  IF ps = <<>> THEN acc
  ELSE ReduceRight(Front(ps), <<Last(ps)>> \o acc)
\* mutant: reduce instead of reduceRight, the last plugin becomes outermost
RECURSIVE ReduceLeft(_, _)
ReduceLeft(ps, acc) ==
  IF ps = <<>> THEN acc
  ELSE ReduceLeft(Tail(ps), <<Head(ps)>> \o acc)
BuildChain_Reduce(ps) == ReduceLeft(ps, <<>>)
BuildChain(ps) == ReduceRight(ps, <<>>)

\* ---- capabilities ----
\* register, use and onAfter each return a closure to the caller.  The closure
\* of register captures the action, the closure of use the plugin function,
\* the closure of onAfter the hook function.  An entry of caps.log stands for
\* one returned closure: what it captured (key), the handler its register call
\* bound (h), whether the registration its call made is still in the bus
\* (live), and, once that registration has been taken out by a closure, the
\* number of that closure (by; 0 otherwise).
NoCaps == [on |-> FALSE, log |-> <<>>]
Cap(kind, key, h) == [kind |-> kind, key |-> key, h |-> h, live |-> TRUE, by |-> 0]
CanIssue == ~caps.on \/ Len(caps.log) < MaxCaps
\* the call returns a new closure; handlers.set takes the place of the
\* binding an earlier register call made for the same action
Issue(c, kind, key, h) ==
  IF ~c.on THEN c
  ELSE [c EXCEPT !.log =
          Append([i \in 1..Len(@) |->
                    IF kind = "register" /\ @[i].kind = kind /\ @[i].key = key
                      THEN [@[i] EXCEPT !.live = FALSE]
                      ELSE @[i]],
                 Cap(kind, key, h))]
\* the registrations closure i takes out of the bus: handlers.delete(key)
\* removes the binding of the action whoever made it, indexOf(key) finds the
\* first element that is the captured function
Hit(log, i) ==
  LET c == log[i]
      same == {j \in 1..Len(log) :
                 log[j].kind = c.kind /\ log[j].key = c.key /\ log[j].live}
  IN  IF c.kind = "register" \/ same = {} THEN same
      ELSE {CHOOSE j \in same : \A k \in same : j <= k}
Invoked(c, i) ==
  [c EXCEPT !.log = [j \in 1..Len(@) |->
                       IF j \in Hit(@, i)
                         THEN [@[j] EXCEPT !.live = FALSE, !.by = i]
                         ELSE @[j]]]
\* closure i has taken out the registration its own call made
Spent(i) == caps.log[i].by = i

\* ---- dispatch ----
InFlight == d.pc \in {"chain", "awaitHandler", "hooks"}
\* in the asynchronous bus the steps of a dispatch are joined by awaits
Awaits == variant = "async"

\* try { const value = handler(cmd); return { ok: true, value } }
\* catch (e) { return { ok: false, error: e } }
\* a failure that nothing catches leaves dispatch as a thrown failure
\* mutant: dispatch turns the failure into a Result and goes on to the hooks
Thrown_AsResult(f, e) ==
  [f EXCEPT !.pc = "hooks", !.depth = 0, !.dir = "up", !.hookIdx = 1,
            !.result = ErrResult(e)]
Thrown(f, e) == [f EXCEPT !.pc = "threw", !.thrown = e]
\* mutant: no try/catch around the handler call
TryHandler_NoCatch(f, outcome) ==
  IF outcome.kind = "throw"
    THEN Thrown(f, outcome.v)
    ELSE [f EXCEPT !.result = OkResult(outcome.v)]
TryHandler(f, outcome) ==
  IF outcome.kind = "throw"
    THEN [f EXCEPT !.result = ErrResult(outcome.v)]
    ELSE [f EXCEPT !.result = OkResult(outcome.v)]

\* a step of the chain has produced f.result and returns it to the plugin at
\* depth i, or to dispatch itself (const result = chain()) when i = 0
ReturnTo(f, i) ==
  IF f.pc = "threw" THEN f
  ELSE IF i = 0
    THEN [f EXCEPT !.pc = "hooks", !.depth = 0, !.dir = "up", !.hookIdx = 1,
                   !.susp = Awaits]
    ELSE [f EXCEPT !.pc = "chain", !.depth = i, !.dir = "up", !.susp = Awaits]

\* ---- the plugins of plugins.ts in the chain ----
\* the latest dispatch of each (action, target) that reached debounce or
\* throttle: its command, the clock at the call, whether no dispatch with the
\* same key came before it, the clock at the latest dispatch of this
\* (action, target) whose next() the plugin called at once (exec), and
\* whether a timer has run next() for its command since (ran; the clock at
\* the call is then forgotten)
Asked(b, cmd, executed) ==
  LET same(e) == e.action = cmd.action /\ e.target = cmd.target
      old == SelectSeq(b.asked, same)
      rest == SelectSeq(b.asked, LAMBDA e : ~same(e))
  IN  Append(rest,
             [action |-> cmd.action, target |-> cmd.target, cmd |-> cmd,
              at |-> b.now, ran |-> FALSE,
              first |-> \A j \in 1..Len(b.asked) : Key(b.asked[j].cmd) # Key(cmd),
              exec |-> IF executed THEN <<b.now>>
                       ELSE IF old = <<>> THEN <<>> ELSE old[1].exec])

\* const existing = timers.get(key); if (existing) clearTimeout(existing);
\* timers.set(key, setTimeout(() => { const result = next(); ... }, wait)):
\* the callback holds next, the rest of the chain of this dispatch
\* mutant: a timer that is pending is left as it is
Schedule_Keep(timers, key, f, i, at) ==
  IF EntryHas(timers, key) THEN timers
  ELSE EntrySet(timers, key, [cmd |-> f.cmd, handler |-> f.handler,
                              chain |-> f.chain, depth |-> i, at |-> at])
Schedule(timers, key, f, i, at) ==
  EntrySet(timers, key, [cmd |-> f.cmd, handler |-> f.handler,
                         chain |-> f.chain, depth |-> i, at |-> at])

\* const last = lastRun.get(key) ?? 0; if (now - last >= wait)
LastRun(b, key) == IF EntryHas(b.lastRun, key) THEN EntryGet(b.lastRun, key) ELSE 0
\* mutant: the plugin never holds a command back
Allowed_Always(b, key) == TRUE
Allowed(b, key) == b.now - LastRun(b, key) >= b.wait

\* what the plugin leaves in its closure before it returns or calls next()
BeforeState(b, p, f, i) ==
  IF p = "debounce" /\ f.cmd.action \in ActionSet
    THEN [b EXCEPT !.timers = Schedule(@, Key(f.cmd), f, i, b.now + b.wait),
                   !.asked = Asked(b, f.cmd, FALSE)]
  ELSE IF p = "throttle" /\ f.cmd.action \in ActionSet
    THEN IF Allowed(b, Key(f.cmd))
           THEN [b EXCEPT !.lastRun = EntrySet(@, Key(f.cmd), b.now),
                          !.asked = Asked(b, f.cmd, TRUE)]
           ELSE [b EXCEPT !.asked = Asked(b, f.cmd, FALSE)]
  ELSE b
\* what the plugin leaves in its closure once next() has returned
AfterState(b, p, cmd, result) ==
  IF p = "history" THEN Track(b, cmd, result) ELSE b

\* plugin(cmd, next) for a plugin of plugins.ts at depth i
BuiltinWrapper(f, p, i) ==
  LET cmd == f.cmd
      key == Key(cmd)
      callsNext == [f EXCEPT !.tries[i] = 1, !.depth = i + 1, !.susp = Awaits]
  IN  IF p = "validator"
        THEN IF Rejects(cmd.action, cmd)
               THEN ReturnTo([f EXCEPT !.result = Rejected(cmd.action, cmd)], i - 1)
               ELSE callsNext
      ELSE IF p = "debounce" /\ cmd.action \in ActionSet
        \* return results.get(key) ?? { ok: true, value: { pending: true, key } }
        THEN ReturnTo([f EXCEPT !.result =
                         IF EntryHas(builtin.results, key)
                           THEN EntryGet(builtin.results, key)
                           ELSE Pending(key)], i - 1)
      ELSE IF p = "throttle" /\ cmd.action \in ActionSet /\ ~Allowed(builtin, key)
        THEN ReturnTo([f EXCEPT !.result =
                         Throttled(key, builtin.wait
                                        - (builtin.now - LastRun(builtin, key)))],
                      i - 1)
      ELSE callsNext

\* () => plugin(cmd, next) at depth i: the plugin either calls next(), which
\* is the wrapper at depth i + 1, or returns a Result of its own; an
\* asynchronous plugin may await before it calls next()
\* mutant: the wrapper goes on to the next step whatever the plugin did
Wrapper_AlwaysNext(f, p, i) == [f EXCEPT !.depth = i + 1, !.susp = Awaits]
Wrapper(f, p, i) ==
  IF p = "PX" THEN Thrown(f, PluginError(p))
  ELSE IF p \in BuiltinFns THEN BuiltinWrapper(f, p, i)
  ELSE IF PluginCallsNext(p, f.cmd)
    THEN [f EXCEPT !.cmd = Transform(p, @), !.tries[i] = 1,
                   !.depth = i + 1, !.susp = Awaits]
    ELSE ReturnTo([f EXCEPT !.result = PluginOwnResult(p)], i - 1)

\* next() has returned f.result to the plugin at depth i: the plugin returns
\* it, or throws, or (for (let attempt = 1; attempt <= maxRetries; attempt++))
\* calls next() again
\* mutant: next() can be called once only
AfterNext_Once(f, p, i) == ReturnTo(f, i - 1)
AfterNext(f, p, i) ==
  IF p = "PY" THEN Thrown(f, PluginError(p))
  ELSE IF p = "PR" /\ ~f.result.ok
    THEN IF f.tries[i] < MaxRetries
           THEN [f EXCEPT !.tries[i] = @ + 1, !.depth = i + 1, !.dir = "down",
                          !.susp = Awaits]
           ELSE ReturnTo([f EXCEPT !.result = RetriesExceeded], i - 1)
    ELSE ReturnTo(f, i - 1)

\* the plugin the wrapper at depth i calls: the one reduceRight handed to the
\* arrow function when dispatch built the chain, whatever plugins holds now
\* mutant: the wrapper looks its plugin up in the plugin list when it runs
ChainAt_Live(f, ps, i) == IF i \in 1..Len(ps) THEN ps[i] ELSE f.chain[i]
ChainAt(f, ps, i) == f.chain[i]

\* const cmd = { action, target, payload }; const handler =
\* handlers.get(action); const chain = plugins.reduceRight(...): the locals of
\* the call
Started(a, t, p) ==
  [IdleFlow EXCEPT !.pc = "chain", !.args = <<a, t, p>>, !.used = plugins,
                   !.bound = latest[a],
                   !.cmd = MakeCmd(a, t, p),
                   !.handler = MapGet(handlers, a),
                   !.chain = BuildChain(plugins),
                   !.tries = [i \in 1..Len(plugins) |-> 0],
                   !.depth = 1, !.dir = "down"]
DispatchStart(a, t, p) ==
  /\ ~InFlight
  /\ d' = Started(a, t, p)
  /\ UNCHANGED <<vapor, variant, handlers, plugins, afterHooks, nextK, latest, audit, caps, failCount, parked, builtin>>

\* the wrapper at this depth calls its plugin: plugin(cmd, next)
PluginBefore ==
  /\ d.pc = "chain" /\ d.dir = "down" /\ d.depth \in 1..Len(d.chain)
  /\ LET p == ChainAt(d, plugins, d.depth)
         f == [d EXCEPT !.trace = Append(@, Ev("before", p, d.depth, d.cmd, NoResult))]
     IN  /\ d' = Wrapper(f, p, d.depth)
         /\ builtin' = BeforeState(builtin, p, d, d.depth)
  /\ UNCHANGED <<vapor, variant, handlers, plugins, afterHooks, nextK, latest, audit, caps, failCount, parked>>

\* next() has returned to the plugin at this depth, which returns the Result
PluginAfter ==
  /\ d.pc = "chain" /\ d.dir = "up" /\ d.depth \in 1..Len(d.chain)
  /\ LET p == ChainAt(d, plugins, d.depth)
         f == [d EXCEPT !.trace = Append(@, Ev("after", p, d.depth, d.cmd, d.result))]
     IN  /\ d' = AfterNext(f, p, d.depth)
         /\ builtin' = AfterState(builtin, p, d.cmd, d.result)
  /\ UNCHANGED <<vapor, variant, handlers, plugins, afterHooks, nextK, latest, audit, caps, failCount, parked>>

\* the handler useCommandState registers for action a, HS:
\* (cmd) => { state.value = handler(state.value, cmd); return state.value }
\* with the reducer (s, cmd) => [...s, cmd.target]
Reduce(state, cmd) == Append(state, cmd.target)
\* mutant: the cell is not written
Reduced_Lost(v, h, cmd) ==
  IF h = "HS" THEN [v EXCEPT !.applied = Append(@, cmd)] ELSE v
Reduced(v, h, cmd) ==
  IF h = "HS"
    THEN [v EXCEPT !.state = Reduce(@, cmd), !.applied = Append(@, cmd)]
    ELSE v
StateOutcome(h, cmd, fc, v) ==
  IF h = "HS" THEN [kind |-> "return", v |-> Reduce(v.state, cmd)]
  ELSE HandlerOutcome(h, cmd, fc)

\* the handler execute calls: const handler = handlers.get(action) is a
\* local of dispatch, read once when dispatch is called
\* mutant: execute looks the handler up when it runs, under the action the
\* command has then
Resolved_Live(f, hs) == MapGet(hs, f.cmd.action)
Resolved(f, hs) == f.handler

\* execute(): the innermost step
Execute ==
  /\ d.pc = "chain" /\ d.dir = "down" /\ d.depth = Len(d.chain) + 1
  /\ IF Resolved(d, handlers) = NoHandlerFn
       THEN d' = ReturnTo([d EXCEPT !.result = ErrResult(NoHandlerError(d.args[1]))],
                          Len(d.chain))
       ELSE LET h == Resolved(d, handlers)
                out == StateOutcome(h, d.cmd, failCount, vapor)
                f == [d EXCEPT !.trace = Append(@, Ev("handler", h, 0, d.cmd, NoResult))]
            IN  \/ /\ variant = "sync"
                   /\ d' = ReturnTo(TryHandler(f, out), Len(d.chain))
                \* a handler that throws before it returns a promise
                \/ /\ variant = "async" /\ out.kind = "throw"
                   /\ d' = ReturnTo(TryHandler(f, out), Len(d.chain))
                \* await handler(cmd)
                \/ /\ variant = "async"
                   /\ d' = [f EXCEPT !.pc = "awaitHandler", !.pending = out,
                                     !.awaited = TRUE, !.susp = TRUE]
  /\ failCount' = IF Resolved(d, handlers) = "HF" THEN FlakyCount(failCount) ELSE failCount
  /\ vapor' = Reduced(vapor, Resolved(d, handlers), d.cmd)
  /\ UNCHANGED <<variant, handlers, plugins, afterHooks, nextK, latest, audit, caps, parked, builtin>>

\* const value = await handler(cmd): what the await yields is the outcome of
\* the promise, its value or its rejection
\* mutant: no await, the value is the promise itself
Awaited_Promise(out) == [kind |-> "return", v |-> <<"Promise">>]
Awaited(out) == out

\* the awaited handler promise settles
HandlerSettle ==
  /\ d.pc = "awaitHandler"
  /\ d' = ReturnTo(TryHandler([d EXCEPT !.pc = "chain", !.pending = NoOutcome],
                              Awaited(d.pending)),
                   Len(d.chain))
  /\ UNCHANGED <<vapor, variant, handlers, plugins, afterHooks, nextK, latest, audit, caps, failCount, parked, builtin>>

\* the element the array iterator of for...of yields at its index
\* mutant: the loop walks the array from its end
IterNext_Backwards(s, i) == s[Len(s) + 1 - i]
IterNext(s, i) == s[i]

\* catch (e) { console.error('[vapor-chamber] Hook error:', e) } for the hook
\* the loop is awaiting, if any
\* mutant: the loop does not wait for what the hook returned
HookCatch_NoAwait(f) == f
HookCatch(f) ==
  IF f.pending.kind = "throw"
    THEN [f EXCEPT !.sink = Append(@, f.pending.v), !.pending = NoOutcome]
    ELSE [f EXCEPT !.pending = NoOutcome]

\* useCommandHistory's hook:
\* if (result.ok && (!filter || filter(cmd))) {
\*   const newPast = [...past.value, cmd];
\*   if (newPast.length > maxSize) newPast.shift();
\*   past.value = newPast; future.value = [];
\*   canUndo.value = true; canRedo.value = false }
\* the filter of the model is cmd => cmd.action === 'a'
Tracked(h, cmd, res) ==
  IF res.ok /\ (~h.filter \/ cmd.action = "a")
    THEN LET newPast == Append(h.past, cmd)
         IN  [h EXCEPT !.past = IF Len(newPast) > h.maxSize THEN Tail(newPast) ELSE newPast,
                       !.future = <<>>,
                       !.canUndo = TRUE,
                       !.canRedo = FALSE]
    ELSE h
\* what hook k leaves in the cells of the composables
Hooked(v, k, cmd, res) ==
  IF k = "KH" THEN [v EXCEPT !.hist = Tracked(v.hist, cmd, res)] ELSE v

\* the loop starts: what afterHooks holds when for...of takes its iterator
\* (history, kept for the properties; the loop itself reads the live array)
LoopStart(f) == IF f.hookIdx = 1 THEN [f EXCEPT !.notify = afterHooks] ELSE f

\* one round of for (const hook of afterHooks): the array iterator reads the
\* live array at its index and the hook is called; in the asynchronous bus
\* the loop then awaits what the hook returned, unless the call itself threw
HookStep ==
  /\ d.pc = "hooks" /\ d.hookIdx \in 1..Len(afterHooks)
  /\ LET s == IterNext(afterHooks, d.hookIdx)
         out == HookBody(s.fn)
         f == [HookCatch(LoopStart(d)) EXCEPT
                 !.trace = Append(@, Ev("hook", s.fn, s.reg, d.cmd, d.result)),
                 !.result = HookWrites(s.fn, @),
                 !.hookIdx = d.hookIdx + 1]
     IN  \/ /\ ~Awaits \/ out.kind = "throw"
            /\ d' = HookCatch([f EXCEPT !.pending = out, !.susp = FALSE])
         \* await hook(cmd, result)
         \/ /\ Awaits
            /\ d' = [f EXCEPT !.pending = out, !.susp = TRUE]
  /\ vapor' = Hooked(vapor, IterNext(afterHooks, d.hookIdx).fn, d.cmd, d.result)
  /\ UNCHANGED <<variant, handlers, plugins, afterHooks, nextK, latest, audit, caps, failCount, parked, builtin>>

\* the iterator is exhausted: return result
Returned(f) ==
  [HookCatch(LoopStart(f)) EXCEPT !.pc = "done", !.susp = FALSE, !.returned = f.result]
Return ==
  /\ d.pc = "hooks" /\ d.hookIdx > Len(afterHooks)
  /\ d' = Returned(d)
  /\ UNCHANGED <<vapor, variant, handlers, plugins, afterHooks, nextK, latest, audit, caps, failCount, parked, builtin>>

\* ---- the blocking dispatch as a function ----
\* createCommandBus().dispatch runs to its end without interruption, so what
\* it does is a function of its arguments and of the bus at the call: the
\* invocations it makes, in order, what it logs and the Result it returns.
\* the wrapper at depth i: () => plugin(cmd, next), execute below the last
RECURSIVE SyncChain(_, _, _, _)
SyncChain(ps, i, cmd, h) ==
  IF i > Len(ps)
    THEN IF h = NoHandlerFn
           THEN [trace |-> <<>>, result |-> ErrResult(NoHandlerError(cmd.action))]
           ELSE [trace |-> <<Ev("handler", h, 0, cmd, NoResult)>>,
                 result |-> IF HandlerBody(h, cmd).kind = "throw"
                              THEN ErrResult(HandlerBody(h, cmd).v)
                              ELSE OkResult(HandlerBody(h, cmd).v)]
    ELSE IF PluginCallsNext(ps[i], cmd)
      THEN LET r == SyncChain(ps, i + 1, cmd, h)
           IN  [trace |-> <<Ev("before", ps[i], i, cmd, NoResult)>> \o r.trace
                            \o <<Ev("after", ps[i], i, cmd, r.result)>>,
                result |-> r.result]
      ELSE [trace |-> <<Ev("before", ps[i], i, cmd, NoResult)>>,
            result |-> PluginOwnResult(ps[i])]
\* for (const hook of afterHooks) try { hook(cmd, result) } catch ...
SyncHooks(hooks, cmd, res) ==
  [k \in 1..Len(hooks) |-> Ev("hook", hooks[k].fn, hooks[k].reg, cmd, res)]
SyncSink(hooks) ==
  LET failing == SelectSeq(hooks, LAMBDA s : HookBody(s.fn).kind = "throw")
  IN  [k \in 1..Len(failing) |-> HookBody(failing[k].fn).v]
SyncDispatch(a, t, p, h, ps, hooks) ==
  LET cmd == MakeCmd(a, t, p)
      r == SyncChain(ps, 1, cmd, h)
  IN  [trace |-> r.trace \o SyncHooks(hooks, cmd, r.result),
       sink |-> SyncSink(hooks),
       returned |-> r.result]

\* ---- registration ----
\* the caller's own code runs between dispatches, and in the asynchronous
\* bus also while a dispatch is suspended
CallerRuns == ~InFlight \/ (d.susp /\ d.mid < MaxMidOps)
\* the caller has taken the outcome of the finished dispatch
Taken == IF InFlight THEN [d EXCEPT !.mid = @ + 1] ELSE IdleFlow

Register(a, h) ==
  /\ CallerRuns
  /\ CanIssue
  /\ handlers' = MapSet(handlers, a, h)
  /\ latest' = [latest EXCEPT ![a] = [h |-> h, over |-> audit /\ @.h # NoHandlerFn]]
  /\ d' = Taken
  /\ caps' = Issue(caps, "register", a, h)
  /\ UNCHANGED <<vapor, variant, plugins, afterHooks, nextK, audit, failCount, parked, builtin>>

\* the capability returned by register: () => handlers.delete(action)
Unregister(a) ==
  /\ CallerRuns
  /\ MapHas(handlers, a)
  /\ handlers' = MapDelete(handlers, a)
  /\ latest' = [latest EXCEPT ![a] = NoBinding]
  /\ d' = Taken
  /\ UNCHANGED <<vapor, variant, plugins, afterHooks, nextK, audit, caps, failCount, parked, builtin>>

Use(p) ==
  /\ CallerRuns
  /\ CanIssue
  /\ Len(plugins) < MaxPlugins
  /\ plugins' = Append(plugins, p)
  /\ d' = Taken
  /\ caps' = Issue(caps, "use", p, NoHandlerFn)
  /\ UNCHANGED <<vapor, variant, handlers, afterHooks, nextK, latest, audit, failCount, parked, builtin>>

\* the capability returned by the use() call that pushed element i
UnsubscribePlugin(i) ==
  /\ CallerRuns
  /\ i \in 1..Len(plugins)
  /\ plugins' = Remove(plugins, plugins[i])
  /\ d' = Taken
  /\ UNCHANGED <<vapor, variant, handlers, afterHooks, nextK, latest, audit, caps, failCount, parked, builtin>>

OnAfter(k) ==
  /\ CallerRuns
  /\ CanIssue
  /\ nextK <= MaxHooks
  /\ afterHooks' = Append(afterHooks, [fn |-> k, reg |-> nextK])
  /\ nextK' = nextK + 1
  /\ d' = Taken
  /\ caps' = Issue(caps, "onAfter", k, NoHandlerFn)
  /\ UNCHANGED <<vapor, variant, handlers, plugins, latest, audit, failCount, parked, builtin>>

\* the capability returned by the onAfter() call number r
UnsubscribeHook(r) ==
  /\ CallerRuns
  /\ r \in Regs(afterHooks)
  /\ afterHooks' = RemoveHook(afterHooks, SlotOf(afterHooks, r).fn)
  /\ d' = Taken
  /\ UNCHANGED <<vapor, variant, handlers, plugins, nextK, latest, audit, caps, failCount, parked, builtin>>

\* the caller invokes closure i of those it holds, whatever was called since:
\* () => handlers.delete(action), or
\* () => { const i = plugins.indexOf(plugin); if (i !== -1) plugins.splice(i, 1) }
\* and the same on afterHooks
Invoke(i) ==
  /\ CallerRuns
  /\ caps.on /\ i \in 1..Len(caps.log)
  /\ LET c == caps.log[i]
     IN  /\ handlers' = IF c.kind = "register" THEN MapDelete(handlers, c.key) ELSE handlers
         /\ latest' = IF c.kind = "register" THEN [latest EXCEPT ![c.key] = NoBinding] ELSE latest
         /\ plugins' = IF c.kind = "use" THEN Remove(plugins, c.key) ELSE plugins
         /\ afterHooks' = IF c.kind = "onAfter" THEN RemoveHook(afterHooks, c.key) ELSE afterHooks
  /\ caps' = Invoked(caps, i)
  /\ d' = Taken
  /\ UNCHANGED <<vapor, variant, nextK, audit, failCount, parked, builtin>>

\* ---- several asynchronous dispatches in flight ----
\* dispatch is an async function: at each await it is suspended and control
\* goes back to the caller, who may call dispatch again before the promise of
\* the first call has resolved.  One dispatch runs at a time; the other waits
\* at its await with its own cmd, handler, chain and result, which are locals
\* of its call.
\* mutant: cmd and result are variables of the bus, shared by all calls
Resumed_Shared(running, waiting) ==
  [waiting EXCEPT !.cmd = IF running.pc = "idle" THEN @ ELSE running.cmd,
                  !.result = IF running.pc = "idle" THEN @ ELSE running.result]
Resumed(running, waiting) == waiting

\* the dispatch is suspended at an await and the caller's code runs on
Park ==
  /\ Awaits /\ InFlight /\ d.susp
  /\ parked.pc = "idle"
  /\ parked' = d
  /\ d' = IdleFlow
  /\ UNCHANGED <<vapor, variant, handlers, plugins, afterHooks, nextK, latest, audit, caps, failCount, builtin>>

\* the promise the waiting dispatch awaits has settled and the event loop
\* resumes it, the running dispatch being suspended or finished
Resume ==
  /\ Awaits
  /\ ~InFlight \/ d.susp
  /\ parked.pc \in {"chain", "awaitHandler", "hooks"}
  /\ d' = Resumed(d, parked)
  /\ parked' = (IF InFlight THEN d ELSE IdleFlow)
  /\ UNCHANGED <<vapor, variant, handlers, plugins, afterHooks, nextK, latest, audit, caps, failCount, builtin>>

\* ---- the hook loop as its iterator sees it ----
\* hooks that call onAfter while they run: KA registers KB, KB registers KA
NotifyHookFns == {"K", "KA", "KB"}
\* bus.onAfter(other) inside the hook: what the call pushes onto afterHooks
Pushed(k) ==
  IF k = "KA" THEN <<[fn |-> "KB", reg |-> 0]>>
  ELSE IF k = "KB" THEN <<[fn |-> "KA", reg |-> 0]>>
  ELSE <<>>
\* for (const hook of afterHooks): the array iterator goes on while its index
\* is below the length the array has now, so what the loop still does
\* depends only on the elements at and after its index.  In this view of one
\* dispatch afterHooks holds those elements only: the element just yielded
\* leaves the view, an element pushed during the call joins its end, and the
\* iterator is exhausted when the view is empty.  The invocations are not
\* recorded.
NotifyStep ==
  /\ d.pc = "hooks" /\ d.hookIdx \in 1..Len(afterHooks)
  /\ LET s == IterNext(afterHooks, d.hookIdx)
     IN  /\ afterHooks' = Tail(afterHooks) \o Pushed(s.fn)
         /\ d' = [d EXCEPT !.susp = Awaits]
  /\ UNCHANGED <<vapor, variant, handlers, plugins, nextK, latest, audit, caps, failCount, parked, builtin>>

\* one dispatch is followed, on a bus set up before it is called
NotifySetup ==
  /\ d.pc = "idle"
  /\ \/ \E a \in Actions, h \in HandlerFns : Register(a, h)
     \/ \E p \in PluginFns : Len(plugins) < MaxConcPlugins /\ Use(p)
     \/ \E k \in NotifyHookFns : OnAfter(k)
NotifyDispatch(a, t, p) == d.pc = "idle" /\ DispatchStart(a, t, p)
\* the steps of a dispatch; a blocking dispatch runs them without
\* interruption, an asynchronous one is resumed by the event loop whenever
\* what it awaits has settled
NotifyRun ==
  PluginBefore \/ PluginAfter \/ Execute \/ HandlerSettle \/ NotifyStep \/ Return

\* ---- the plugins of plugins.ts: the caller's calls ----
\* bus.use(plugin) for a plugin of plugins.ts, made once
BuiltinUse(p) ==
  /\ Len(plugins) < MaxBuiltinPlugins
  /\ p \in BuiltinFns => \A i \in 1..Len(plugins) : plugins[i] # p
  /\ Use(p)

\* historyPlugin.undo(), historyPlugin.redo(), historyPlugin.clear()
UndoCall ==
  /\ CallerRuns
  /\ builtin' = Undo(builtin)
  /\ d' = Taken
  /\ UNCHANGED <<vapor, variant, handlers, plugins, afterHooks, nextK, latest, audit, caps, failCount, parked>>
RedoCall ==
  /\ CallerRuns
  /\ builtin' = Redo(builtin)
  /\ d' = Taken
  /\ UNCHANGED <<vapor, variant, handlers, plugins, afterHooks, nextK, latest, audit, caps, failCount, parked>>
ClearCall ==
  /\ CallerRuns
  /\ builtin' = Clear(builtin)
  /\ d' = Taken
  /\ UNCHANGED <<vapor, variant, handlers, plugins, afterHooks, nextK, latest, audit, caps, failCount, parked>>

\* ---- the shared bus ----
\* if (!sharedBus) { sharedBus = createCommandBus() } return sharedBus
\* mutant: every call makes a new bus
Shared_Fresh(v) == [bus |-> v.made + 1, made |-> v.made + 1]
Shared(v) ==
  IF v.sharedBus = 0
    THEN [bus |-> v.made + 1, made |-> v.made + 1]
    ELSE [bus |-> v.sharedBus, made |-> v.made]
\* getCommandBus()
GetCommandBus ==
  /\ Shared(vapor).made <= MaxBuses
  /\ vapor' = [vapor EXCEPT !.sharedBus = Shared(vapor).bus,
                            !.made = Shared(vapor).made,
                            !.got = <<Shared(vapor).bus>>]
  /\ UNCHANGED <<variant, handlers, plugins, afterHooks, nextK, d, latest, audit, caps, failCount, parked, builtin>>
\* const customBus = createCommandBus(), made by the caller
CreateBus ==
  /\ vapor.made < MaxBuses
  /\ vapor' = [vapor EXCEPT !.made = @ + 1]
  /\ UNCHANGED <<variant, handlers, plugins, afterHooks, nextK, d, latest, audit, caps, failCount, parked, builtin>>
\* setCommandBus(b) for a bus b the caller holds: sharedBus = bus
SetCommandBus(b) ==
  /\ b \in 1..vapor.made
  /\ vapor' = [vapor EXCEPT !.sharedBus = b, !.got = <<>>, !.lastSet = <<b>>]
  /\ UNCHANGED <<variant, handlers, plugins, afterHooks, nextK, d, latest, audit, caps, failCount, parked, builtin>>
\* useCommand(): const bus = getCommandBus()
UseCommand ==
  /\ Shared(vapor).made <= MaxBuses
  /\ vapor' = [vapor EXCEPT !.sharedBus = Shared(vapor).bus,
                            !.made = Shared(vapor).made,
                            !.got = <<Shared(vapor).bus>>,
                            !.ucBus = Shared(vapor).bus]
  /\ UNCHANGED <<variant, handlers, plugins, afterHooks, nextK, d, latest, audit, caps, failCount, parked, builtin>>

\* ---- useCommand ----
\* the module after one useCommand() call; the bus of the model is the
\* shared bus
Composed ==
  [NoVapor EXCEPT !.sharedBus = 1, !.made = 1, !.got = <<1>>, !.ucBus = 1]
\* useCommand().dispatch(action, target, payload) up to its call of
\* bus.dispatch: loading.value = true; lastError.value = null
Entered(v) == [v EXCEPT !.loading = TRUE, !.lastError = <<>>]
\* after bus.dispatch has returned: loading.value = false;
\* if (!result.ok) lastError.value = result.error ?? null
\* mutant: lastError is not written
Left_NoError(v, result) == [v EXCEPT !.loading = FALSE]
Left(v, result) ==
  [v EXCEPT !.loading = FALSE,
            !.lastError = IF result.ok THEN @
                          ELSE IF result.error = Undefined THEN <<>>
                          ELSE <<result.error>>]
\* no call of dispatch is running, on the caller's stack or below it
Outside == ~InFlight /\ parked.pc = "idle"
\* useCommand().dispatch called by the caller
UcCall(a, t, p) ==
  /\ Outside
  /\ d' = Started(a, t, p)
  /\ vapor' = Entered(vapor)
  /\ UNCHANGED <<variant, handlers, plugins, afterHooks, nextK, latest, audit, caps, failCount, parked, builtin>>
\* the handler HN is (cmd) => { dispatch('b', cmd.target, cmd.payload);
\* return value } with the dispatch of the same useCommand(): the call
\* of the handler is on the stack while the dispatch it makes runs
AtHandler(f) == f.pc = "chain" /\ f.dir = "down" /\ f.depth = Len(f.chain) + 1
NestedCall ==
  /\ AtHandler(d) /\ d.handler = "HN" /\ d.mid = 0
  /\ parked.pc = "idle"
  /\ parked' = [d EXCEPT !.mid = 1]
  /\ d' = Started("b", d.cmd.target, d.cmd.payload)
  /\ vapor' = Entered(vapor)
  /\ UNCHANGED <<variant, handlers, plugins, afterHooks, nextK, latest, audit, caps, failCount, builtin>>
\* the dispatch HN made has ended and HN goes on: it returns its value, or
\* the failure that came out of the dispatch comes out of HN
NestedEnd ==
  /\ d.pc \in {"done", "threw"} /\ parked.pc # "idle"
  /\ d' = IF d.pc = "done" THEN parked
          ELSE ReturnTo(TryHandler([parked EXCEPT !.trace =
                                      Append(@, Ev("handler", "HN", 0, parked.cmd, NoResult))],
                                   [kind |-> "throw", v |-> d.thrown]),
                        Len(parked.chain))
  /\ parked' = IdleFlow
  /\ UNCHANGED <<vapor, variant, handlers, plugins, afterHooks, nextK, latest, audit, caps, failCount, builtin>>
\* the handler is called, HN after the dispatch it makes
UcExecute == ~(d.handler = "HN" /\ d.mid = 0) /\ Execute
\* bus.dispatch returns its Result and useCommand().dispatch runs to its end
UcReturn ==
  /\ d.pc = "hooks" /\ d.hookIdx > Len(afterHooks)
  /\ d' = Returned(d)
  /\ vapor' = Left(vapor, d.result)
  /\ UNCHANGED <<variant, handlers, plugins, afterHooks, nextK, latest, audit, caps, failCount, parked, builtin>>
\* the caller sets the bus up between its calls of dispatch
UcSetup ==
  /\ Outside
  /\ \/ \E h \in {"H1", "HT", "HN"} : Register("a", h)
     \/ \E h \in {"H1", "HT"} : Register("b", h)
     \/ \E p \in {"P1", "P2", "PX"} : Len(plugins) < MaxConcPlugins /\ Use(p)
     \/ \E i \in 1..Len(plugins) : UnsubscribePlugin(i)
     \/ nextK = 1 /\ OnAfter("K")
NextUse ==
  \/ UcSetup
  \/ \E a \in Actions, t \in Targets, p \in Payloads : UcCall(a, t, p)
  \/ NestedCall
  \/ NestedEnd
  \/ PluginBefore
  \/ PluginAfter
  \/ UcExecute
  \/ HookStep
  \/ UcReturn

\* bus.use(plugin) on a bus with the plugins of the examples
BodyUse(p) == Len(plugins) < MaxBodyPlugins /\ Use(p)

\* ---- plugins that change the registry ----
\* PG is (cmd, next) => { bus.register('a', ht); return next() } and PU is
\* (cmd, next) => { unregisterA(); return next() }, unregisterA being what
\* register('a', ...) returned
Meddlers == {"PG", "PU"}
Meddle(hs, p) ==
  IF p = "PG" THEN MapSet(hs, "a", "HT") ELSE MapDelete(hs, "a")
PluginMeddles ==
  /\ d.pc = "chain" /\ d.dir = "down" /\ d.depth \in 1..Len(d.chain)
  /\ ChainAt(d, plugins, d.depth) \in Meddlers
  /\ LET p == ChainAt(d, plugins, d.depth)
         f == [d EXCEPT !.trace = Append(@, Ev("before", p, d.depth, d.cmd, NoResult))]
     IN  /\ d' = Wrapper(f, p, d.depth)
         /\ handlers' = Meddle(handlers, p)
         /\ latest' = [latest EXCEPT !["a"] =
                         IF p = "PG" THEN [h |-> "HT", over |-> FALSE] ELSE NoBinding]
  /\ UNCHANGED <<vapor, variant, plugins, afterHooks, nextK, audit, caps, failCount, parked, builtin>>
\* the other plugins
PluginPlain ==
  /\ d.depth \in 1..Len(d.chain) /\ ChainAt(d, plugins, d.depth) \notin Meddlers
  /\ PluginBefore
NextResolve ==
  \/ \E a \in Actions, t \in Targets, p \in Payloads : DispatchStart(a, t, p)
  \/ PluginPlain
  \/ PluginMeddles
  \/ PluginAfter
  \/ Execute
  \/ HandlerSettle
  \/ Return
  \/ \E a \in Actions, h \in HandlerFns : Register(a, h)
  \/ \E a \in Actions : Unregister(a)
  \/ \E p \in {"P1", "PA", "PG", "PU"} : BodyUse(p)
  \/ \E i \in 1..MaxBodyPlugins : UnsubscribePlugin(i)

\* ---- useCommandState ----
\* bus.dispatch(action, target, payload) on the shared bus
StateDispatch(a, t, p) ==
  /\ ~InFlight
  /\ Len(vapor.sent) < MaxSent
  /\ d' = Started(a, t, p)
  /\ vapor' = [vapor EXCEPT !.sent = IF a = "a" THEN Append(@, MakeCmd(a, t, p)) ELSE @]
  /\ UNCHANGED <<variant, handlers, plugins, afterHooks, nextK, latest, audit, caps, failCount, parked, builtin>>
\* dispose(): unregisters.forEach(fn => fn()), each fn being
\* () => handlers.delete(action)
Dispose ==
  /\ ~InFlight /\ ~vapor.disposed
  /\ handlers' = MapDelete(handlers, "a")
  /\ latest' = [latest EXCEPT !["a"] = NoBinding]
  /\ vapor' = [vapor EXCEPT !.disposed = TRUE]
  /\ d' = Taken
  /\ UNCHANGED <<variant, plugins, afterHooks, nextK, audit, caps, failCount, parked, builtin>>
\* other callers of the shared bus
StateSetup ==
  /\ ~InFlight
  /\ \/ Register("a", "H1")
     \/ \E h \in {"H1", "HT"} : Register("b", h)
     \/ \E p \in {"validator", "P1"} : BuiltinUse(p)
NextState ==
  \/ StateSetup
  \/ Dispose
  \/ \E a \in Actions, t \in {"t1", "t2"}, p \in {"p1", "p2"} : StateDispatch(a, t, p)
  \/ PluginBefore
  \/ PluginAfter
  \/ Execute
  \/ Return

\* useCommandHistory().undo
HistoryUndo ==
  /\ ~InFlight
  /\ LET h == vapor.hist
         p == SubSeq(h.past, 1, Len(h.past) - 1)
     IN  vapor' = IF h.past # <<>>
                    THEN [vapor EXCEPT !.hist =
                            [h EXCEPT !.past = p,
                                      !.future = Append(h.future, h.past[Len(h.past)]),
                                      !.canUndo = Len(p) > 0,
                                      !.canRedo = TRUE]]
                    ELSE vapor
  /\ d' = Taken
  /\ UNCHANGED <<variant, handlers, plugins, afterHooks, nextK, latest, audit, caps, failCount, parked, builtin>>
\* useCommandHistory().redo
HistoryRedo ==
  /\ ~InFlight
  /\ LET h == vapor.hist
         f == SubSeq(h.future, 1, Len(h.future) - 1)
     IN  vapor' = IF h.future # <<>>
                    THEN [vapor EXCEPT !.hist =
                            [h EXCEPT !.future = f,
                                      !.past = Append(h.past, h.future[Len(h.future)]),
                                      !.canUndo = TRUE,
                                      !.canRedo = Len(f) > 0]]
                    ELSE vapor
  /\ d' = Taken
  /\ UNCHANGED <<variant, handlers, plugins, afterHooks, nextK, latest, audit, caps, failCount, parked, builtin>>
\* useCommandHistory().clear
HistoryClear ==
  /\ ~InFlight
  /\ vapor' = [vapor EXCEPT !.hist = [@ EXCEPT !.past = <<>>, !.future = <<>>,
                                               !.canUndo = FALSE, !.canRedo = FALSE]]
  /\ d' = Taken
  /\ UNCHANGED <<variant, handlers, plugins, afterHooks, nextK, latest, audit, caps, failCount, parked, builtin>>
\* other callers of the shared bus
UndoSetup ==
  /\ ~InFlight
  /\ \E a \in Actions, h \in {"H1", "HT"} : Register(a, h)
NextUndo ==
  \/ UndoSetup
  \/ \E a \in Actions, t \in {"t1", "t2"} : DispatchStart(a, t, "p1")
  \/ Execute
  \/ HookStep
  \/ Return
  \/ HistoryUndo
  \/ HistoryRedo
  \/ HistoryClear

NextShared ==
  \/ GetCommandBus
  \/ UseCommand
  \/ CreateBus
  \/ \E b \in 1..MaxBuses : SetCommandBus(b)

\* the timer of debounce for this key is due and its callback runs, between
\* two calls of the blocking dispatch:
\* () => { const result = next(); results.set(key, result); timers.delete(key) }
\* next is the rest of the chain of the dispatch that set the timer, with the
\* command and the handler of that dispatch
TimerFire(key) ==
  /\ ~InFlight
  /\ EntryHas(builtin.timers, key)
  /\ EntryGet(builtin.timers, key).at <= builtin.now
  /\ LET t == EntryGet(builtin.timers, key)
         r == SyncChain(t.chain, t.depth + 1, t.cmd, t.handler)
     IN  /\ builtin' = [builtin EXCEPT
                          !.results = EntrySet(@, key, r.result),
                          !.timers = EntryDelete(@, key),
                          !.asked = [j \in 1..Len(@) |->
                                       IF @[j].action = t.cmd.action
                                          /\ @[j].target = t.cmd.target
                                         THEN [@[j] EXCEPT !.ran = TRUE, !.at = 0]
                                         ELSE @[j]]]
         /\ d' = [IdleFlow EXCEPT !.pc = "fired", !.cmd = t.cmd,
                                  !.handler = t.handler, !.chain = t.chain,
                                  !.trace = r.trace, !.result = r.result]
  /\ UNCHANGED <<vapor, variant, handlers, plugins, afterHooks, nextK, latest, audit, caps, failCount, parked>>

\* time passes between two calls of the blocking dispatch; a timer that is
\* due runs before the clock moves on
Tick ==
  /\ ~InFlight
  /\ builtin.now < MaxTime
  /\ \A e \in builtin.timers : e.val.at > builtin.now
  /\ builtin' = [builtin EXCEPT !.now = @ + 1]
  /\ d' = Taken
  /\ UNCHANGED <<vapor, variant, handlers, plugins, afterHooks, nextK, latest, audit, caps, failCount, parked>>

\* ---- specification ----
\* the state createCommandBus / createAsyncCommandBus returns
Created ==
  /\ variant \in Variants
  /\ handlers = {}
  /\ plugins = <<>>
  /\ afterHooks = <<>>
  /\ nextK = 1
  /\ d = IdleFlow
  /\ latest = [a \in Actions |-> NoBinding]
  /\ failCount = 0
  /\ parked = IdleFlow
  /\ vapor = NoVapor

Init == Created /\ audit = FALSE /\ caps = NoCaps /\ builtin = NoBuiltin
InitAudit == Created /\ audit = TRUE /\ caps = NoCaps /\ builtin = NoBuiltin
InitCaps ==
  /\ Created /\ audit = FALSE /\ caps = [NoCaps EXCEPT !.on = TRUE]
  /\ builtin = NoBuiltin
\* createCommandBus() as the shared bus, and useCommand()
InitUse ==
  /\ variant = "sync" /\ handlers = {} /\ plugins = <<>> /\ afterHooks = <<>>
  /\ nextK = 1 /\ d = IdleFlow /\ latest = [a \in Actions |-> NoBinding]
  /\ failCount = 0 /\ parked = IdleFlow /\ audit = FALSE /\ caps = NoCaps
  /\ builtin = NoBuiltin /\ vapor = Composed
\* createCommandBus() as the shared bus, and
\* useCommandState([], { a: (s, cmd) => [...s, cmd.target] })
InitState ==
  /\ variant = "sync" /\ handlers = {[action |-> "a", handler |-> "HS"]}
  /\ plugins = <<>> /\ afterHooks = <<>>
  /\ nextK = 1 /\ d = IdleFlow
  /\ latest = [a \in Actions |-> IF a = "a" THEN [h |-> "HS", over |-> FALSE] ELSE NoBinding]
  /\ failCount = 0 /\ parked = IdleFlow /\ audit = FALSE /\ caps = NoCaps
  /\ builtin = NoBuiltin
  /\ vapor = [NoVapor EXCEPT !.sharedBus = 1, !.made = 1, !.got = <<1>>]
\* createCommandBus() as the shared bus, and useCommandHistory({ maxSize })
\* or useCommandHistory({ maxSize, filter })
UndoSizes == {0, 1, 2}
InitUndo ==
  /\ variant = "sync" /\ handlers = {} /\ plugins = <<>>
  /\ afterHooks = <<[fn |-> "KH", reg |-> 1]>>
  /\ nextK = 2 /\ d = IdleFlow /\ latest = [a \in Actions |-> NoBinding]
  /\ failCount = 0 /\ parked = IdleFlow /\ audit = FALSE /\ caps = NoCaps
  /\ builtin = NoBuiltin
  /\ vapor \in {[NoVapor EXCEPT !.sharedBus = 1, !.made = 1, !.got = <<1>>,
                                 !.hist = [NoHist EXCEPT !.maxSize = m, !.filter = f]] :
                  m \in UndoSizes, f \in BOOLEAN}
\* createCommandBus()
InitSync == Init /\ variant = "sync"
\* createAsyncCommandBus()
InitConc == Init /\ variant = "async"
\* createCommandBus() and debounce(['a'], wait)
DebounceWaits == {2}
InitDebounce ==
  /\ Created /\ variant = "sync" /\ audit = FALSE /\ caps = NoCaps
  /\ builtin \in {Builtin(0, FALSE, w, 0) : w \in DebounceWaits}
\* createCommandBus() and throttle(['a'], wait), the clock reading 0
ThrottleWaits == {1, 2}
InitThrottle ==
  /\ Created /\ variant = "sync" /\ audit = FALSE /\ caps = NoCaps
  /\ builtin \in {Builtin(0, FALSE, w, 0) : w \in ThrottleWaits}
\* createCommandBus() and history({ maxSize, filter })
HistorySizes == {0, 1, 2}
InitHistory ==
  /\ Created /\ variant = "sync" /\ audit = FALSE /\ caps = NoCaps
  /\ builtin \in {Builtin(m, f, 0, 0) : m \in HistorySizes, f \in BOOLEAN}

Next ==
  \/ \E a \in Actions, t \in Targets, p \in Payloads : DispatchStart(a, t, p)
  \/ PluginBefore
  \/ PluginAfter
  \/ Execute
  \/ HandlerSettle
  \/ HookStep
  \/ Return
  \/ \E a \in Actions, h \in HandlerFns : Register(a, h)
  \/ \E a \in Actions : Unregister(a)
  \/ \E p \in PluginFns : Use(p)
  \/ \E i \in 1..MaxPlugins : UnsubscribePlugin(i)
  \/ \E k \in HookFns : OnAfter(k)
  \/ \E r \in 1..MaxHooks : UnsubscribeHook(r)

\* the bus and the closures the caller holds: every closure may be invoked at
\* any time, also once its registration is gone
NextCaps ==
  \/ \E a \in Actions, t \in Targets, p \in Payloads : DispatchStart(a, t, p)
  \/ PluginBefore
  \/ PluginAfter
  \/ Execute
  \/ HandlerSettle
  \/ HookStep
  \/ Return
  \/ \E a \in Actions, h \in HandlerFns : Register(a, h)
  \/ \E p \in PluginFns : Use(p)
  \/ \E k \in HookFns : OnAfter(k)
  \/ \E i \in 1..MaxCaps : Invoke(i)

\* the bus with the handlers, plugins and hooks of the examples
NextBodies ==
  \/ \E a \in {"a"}, t \in Targets, p \in Payloads : DispatchStart(a, t, p)
  \/ PluginBefore
  \/ PluginAfter
  \/ Execute
  \/ HandlerSettle
  \/ HookStep
  \/ Return
  \/ \E a \in {"a"}, h \in BodyHandlerFns : Register(a, h)
  \/ \E a \in {"a"} : Unregister(a)
  \/ \E p \in BodyPluginFns : BodyUse(p)
  \/ \E i \in 1..MaxBodyPlugins : UnsubscribePlugin(i)
  \/ \E k \in BodyHookFns : OnAfter(k)
  \/ \E r \in 1..MaxHooks : UnsubscribeHook(r)

\* the asynchronous bus with up to two dispatches in flight together; the
\* caller sets the bus up while no dispatch is in flight
Quiet == ~InFlight /\ parked.pc = "idle"
Setup ==
  /\ Quiet
  /\ \/ \E a \in Actions, h \in HandlerFns : Register(a, h)
     \/ \E a \in Actions : Unregister(a)
     \/ \E p \in PluginFns : Len(plugins) < MaxConcPlugins /\ Use(p)
     \/ \E i \in 1..MaxConcPlugins : UnsubscribePlugin(i)
     \/ \E k \in HookFns : OnAfter(k)
     \/ \E r \in 1..MaxHooks : UnsubscribeHook(r)
NextConc ==
  \/ \E a \in Actions, t \in Targets, p \in Payloads : DispatchStart(a, t, p)
  \/ PluginBefore
  \/ PluginAfter
  \/ Execute
  \/ HandlerSettle
  \/ HookStep
  \/ Return
  \/ Park
  \/ Resume
  \/ Setup

NextNotify ==
  \/ NotifySetup
  \/ \E a \in Actions, t \in Targets, p \in Payloads : NotifyDispatch(a, t, p)
  \/ PluginBefore
  \/ PluginAfter
  \/ Execute
  \/ HandlerSettle
  \/ NotifyStep
  \/ Return

\* the blocking bus with the history plugin
NextHistory ==
  \/ \E a \in Actions, t \in Targets, p \in {"p1", "p2"} : DispatchStart(a, t, p)
  \/ PluginBefore
  \/ PluginAfter
  \/ Execute
  \/ Return
  \/ \E a \in Actions, h \in HandlerFns : Register(a, h)
  \/ \E p \in {"history", "P1"} : BuiltinUse(p)
  \/ UndoCall
  \/ RedoCall
  \/ ClearCall

\* the commands dispatched on a bus with debounce or throttle
RateCmds ==
  {MakeCmd("a", "t1", "p1"), MakeCmd("a", "t1", "p2"), MakeCmd("a", "t2", "p1"),
   MakeCmd("a", "t2u", "p1"), MakeCmd("b", "t1", "p1")}
\* the blocking bus with plugin p (debounce or throttle), alone or with a
\* pass-through plugin, set up before its first dispatch
FirstCall == builtin.now = 0 /\ builtin.asked = <<>> /\ d.pc = "idle"
Installed(p) == \E i \in 1..Len(plugins) : plugins[i] = p
RateSetup(p) ==
  /\ FirstCall
  /\ \/ \E h \in HandlerFns : Register("a", h)
     \/ Register("b", "H1")
     \/ \E q \in {p, "P1"} : BuiltinUse(q)
RateDispatch(p, c) ==
  /\ Installed(p) /\ MapHas(handlers, c.action)
  /\ DispatchStart(c.action, c.target, c.payload)
NextDebounce ==
  \/ RateSetup("debounce")
  \/ \E c \in RateCmds : RateDispatch("debounce", c)
  \/ PluginBefore
  \/ PluginAfter
  \/ Execute
  \/ Return
  \/ \E t \in PluginTargets : TimerFire(Key(MakeCmd("a", t, "")))
  \/ Tick
\* the blocking bus with debounce and a hook, set up before its first
\* dispatch
NotifiedSetup ==
  /\ FirstCall
  /\ \/ \E h \in {"H1", "HT"} : Register("a", h)
     \/ Register("b", "H1")
     \/ BuiltinUse("debounce")
     \/ nextK = 1 /\ OnAfter("K")
NotifiedCmds ==
  {MakeCmd("a", "t1", "p1"), MakeCmd("a", "t1", "p2"), MakeCmd("a", "t2", "p1"),
   MakeCmd("b", "t1", "p1")}
NextNotified ==
  \/ NotifiedSetup
  \/ \E c \in NotifiedCmds : RateDispatch("debounce", c)
  \/ PluginBefore
  \/ PluginAfter
  \/ Execute
  \/ HookStep
  \/ Return
  \/ \E t \in PluginTargets : TimerFire(Key(MakeCmd("a", t, "")))
  \/ Tick
\* the blocking bus with validator(rules), alone or with a pass-through
\* plugin before or after it; payloads p1, p2, p3 make the rule of action a
\* return null, a message and the empty string
RulePayloads == {"p1", "p2", "p3"}
NextValidator ==
  \/ \E a \in Actions, h \in HandlerFns : Register(a, h)
  \/ \E p \in {"validator", "P1"} : BuiltinUse(p)
  \/ \E a \in Actions, t \in Targets, p \in RulePayloads : DispatchStart(a, t, p)
  \/ PluginBefore
  \/ PluginAfter
  \/ Execute
  \/ Return
NextThrottle ==
  \/ RateSetup("throttle")
  \/ \E c \in RateCmds : RateDispatch("throttle", c)
  \/ PluginBefore
  \/ PluginAfter
  \/ Execute
  \/ Return
  \/ Tick

Spec == Init /\ [][Next]_vars
\* createCommandBus with bus.use(debounce(['a'], wait)) and bus.onAfter(hook)
SpecNotified == InitDebounce /\ [][NextNotified]_vars
\* createCommandBus with bus.use(debounce(['a'], wait))
SpecDebounce == InitDebounce /\ [][NextDebounce]_vars
\* either bus with plugins that register, unregister and rename
SpecResolve == Init /\ [][NextResolve]_vars
\* useCommandState(initial, reducers) on the shared bus
SpecState == InitState /\ [][NextState]_vars
\* useCommandHistory(options) on the shared bus
SpecUndo == InitUndo /\ [][NextUndo]_vars
\* useCommand() on the shared bus
SpecUse == InitUse /\ [][NextUse]_vars
\* the module of the Vapor integration, its shared bus not yet made
SpecShared == InitSync /\ [][NextShared]_vars
\* createCommandBus with bus.use(validator(rules))
SpecValidator == InitSync /\ [][NextValidator]_vars
\* createCommandBus with bus.use(throttle(['a'], wait))
SpecThrottle == InitThrottle /\ [][NextThrottle]_vars
\* createCommandBus with bus.use(history(options))
SpecHistory == InitHistory /\ [][NextHistory]_vars
\* one dispatch on a bus whose hooks may register hooks; every step of the
\* dispatch that can be taken is eventually taken
SpecNotify == Init /\ [][NextNotify]_vars /\ WF_vars(NotifyRun)
\* createAsyncCommandBus with dispatches started before earlier ones finish
SpecConc == InitConc /\ [][NextConc]_vars
\* the same bus, with the replacements of bindings recorded
SpecAudit == InitAudit /\ [][Next]_vars
\* the same bus, with the closures returned to the caller recorded
SpecCaps == InitCaps /\ [][NextCaps]_vars
\* the bus of Spec, used with the handlers, plugins and hooks of the examples
SpecBodies == Init /\ [][NextBodies]_vars

\* ---- properties ----
\* the plugin chain of the dispatch has produced its Result
ChainDone == d.pc \in {"hooks", "done"}
ChainEvents == SelectSeq(d.trace, LAMBDA e : e.ev # "hook")
HookEvents == SelectSeq(d.trace, LAMBDA e : e.ev = "hook")
HandlerEvents == SelectSeq(d.trace, LAMBDA e : e.ev = "handler")
\* every plugin registered when dispatch was called calls next() for its command
AllCallNext == \A i \in 1..Len(d.used) : PluginCallsNext(d.used[i], d.cmd)
\* the first plugin, in registration order, that does not call next()
Blocker(i) ==
  /\ i \in 1..Len(d.used)
  /\ ~PluginCallsNext(d.used[i], d.cmd)
  /\ \A j \in 1..(i - 1) : PluginCallsNext(d.used[j], d.cmd)
\* the command the three arguments of dispatch describe
ArgsCmd == [action |-> d.args[1], target |-> d.args[2], payload |-> d.args[3]]

\* C1: with plugins P1..Pn registered in this order, each calling next once,
\* and a registered handler, the chain runs P1-before .. Pn-before, the
\* handler once, Pn-after .. P1-after.
C1_PluginOrder ==
  (ChainDone /\ d.handler # NoHandlerFn /\ AllCallNext) =>
    LET n == Len(d.used)
        t == ChainEvents
    IN  /\ Len(t) = 2 * n + 1
        /\ \A i \in 1..n : t[i].ev = "before" /\ t[i].who = d.used[i]
        /\ t[n + 1].ev = "handler" /\ t[n + 1].who = d.handler
        /\ \A i \in 1..n : t[n + 1 + i].ev = "after" /\ t[n + 1 + i].who = d.used[n + 1 - i]
C1_Witness ==
  /\ d.pc = "done" /\ d.handler # NoHandlerFn /\ AllCallNext
  /\ Len(d.used) = 3 /\ d.used[1] # d.used[2]

C3_HandlerValue ==
  (d.pc = "done" /\ d.handler # NoHandlerFn /\ AllCallNext
     /\ HandlerBody(d.handler, ArgsCmd).kind = "return") =>
    /\ Len(HandlerEvents) = 1
    /\ HandlerEvents[1].cmd = ArgsCmd
    /\ d.returned = [ok |-> TRUE, value |-> HandlerBody(d.handler, ArgsCmd).v,
                     error |-> Undefined]
C3_Witness ==
  /\ d.pc = "done" /\ d.handler = "H1" /\ AllCallNext /\ Len(d.used) >= 1
  /\ d.returned.ok

\* C4: in both variants a handler that raises e (in the asynchronous variant
\* also after a suspension point) never makes dispatch throw: the innermost
\* step yields {ok: false, error: e}, which dispatch returns when the plugins
\* pass it through.
C4_HandlerFailure ==
  (HandlerEvents # <<>> /\ HandlerBody(d.handler, ArgsCmd).kind = "throw") =>
    /\ d.pc # "threw"
    /\ d.pc # "awaitHandler" =>
         d.result = [ok |-> FALSE, value |-> Undefined,
                     error |-> HandlerBody(d.handler, ArgsCmd).v]
    /\ d.pc = "done" =>
         d.returned = [ok |-> FALSE, value |-> Undefined,
                       error |-> HandlerBody(d.handler, ArgsCmd).v]
C4_Witness ==
  /\ variant = "async" /\ d.awaited /\ d.pc = "done" /\ d.handler = "HT"
  /\ HandlerEvents # <<>> /\ Len(d.used) >= 1

\* C5: a plugin that returns without calling next keeps the handler and every
\* later-registered plugin from running in that dispatch, and the Result it
\* returns is the dispatch's Result, given to the hooks and returned.
C5_ShortCircuit ==
  \A i \in 1..Len(d.used) :
    (d.pc # "idle" /\ Blocker(i)) =>
      /\ HandlerEvents = <<>>
      /\ \A k \in 1..Len(d.trace) :
           d.trace[k].ev \in {"before", "after"} => d.trace[k].reg <= i
      /\ ChainDone =>
           /\ d.result = PluginOwnResult(d.used[i])
           /\ \E k \in 1..Len(d.trace) :
                /\ d.trace[k].ev = "before"
                /\ d.trace[k].reg = i /\ d.trace[k].who = d.used[i]
           /\ \A k \in 1..Len(d.trace) :
                d.trace[k].ev \in {"after", "hook"} =>
                  d.trace[k].res = PluginOwnResult(d.used[i])
      /\ d.pc = "done" => d.returned = PluginOwnResult(d.used[i])
C5_Witness ==
  /\ d.pc = "done" /\ Blocker(2) /\ Len(d.used) = 3
  /\ d.handler # NoHandlerFn /\ HookEvents # <<>>

\* the hook invocations of the dispatch for the onAfter() call number r
Invocations(r) == {k \in 1..Len(d.trace) : d.trace[k].ev = "hook" /\ d.trace[k].reg = r}

\* C6: every registered onAfter hook is invoked exactly once per dispatch,
\* after the plugin chain has produced the Result and before dispatch returns,
\* whether the Result has ok=true or ok=false.
C6_AsStated ==
  d.pc = "done" =>
    /\ \A r \in Regs(afterHooks) : Cardinality(Invocations(r)) = 1
    /\ \A k \in 1..Len(d.trace) :
         d.trace[k].ev = "hook" =>
           /\ d.trace[k].res = d.returned
           /\ \A j \in k..Len(d.trace) : d.trace[j].ev = "hook"

\* C7: a hook that raises a failure is contained: the failure goes to the
\* diagnostic sink, every hook registered after it is still invoked for the
\* same dispatch, dispatch does not throw, and the Result returned is the one
\* the plugin chain produced.
C7_AsStated ==
  /\ d.pc # "threw"
  /\ d.pc = "done" =>
       \A k \in 1..Len(d.trace) :
         (d.trace[k].ev = "hook" /\ HookBody(d.trace[k].who).kind = "throw") =>
           /\ \E i \in 1..Len(d.sink) : d.sink[i] = HookBody(d.trace[k].who).v
           /\ \A r \in Regs(afterHooks) :
                r > d.trace[k].reg => Invocations(r) # {}
           /\ d.returned = d.trace[k].res

\* C8: after any sequence of register and unregister calls at most one handler
\* is bound per action, and after two register calls for the same action a
\* dispatch invokes only the second handler.
C8_Replace ==
  /\ \A a \in Actions :
       /\ Cardinality({e \in handlers : e.action = a}) <= 1
       /\ MapGet(handlers, a) = latest[a].h
  /\ d.pc # "idle" =>
       /\ d.handler = d.bound.h
       /\ \A k \in 1..Len(d.trace) :
            d.trace[k].ev = "handler" => d.trace[k].who = d.bound.h
C8_Witness ==
  /\ d.pc = "done" /\ d.bound.over /\ d.bound.h = "H1"
  /\ Len(HandlerEvents) = 1 /\ d.returned.ok

\* C9: after the plugin chain has produced a Result the hooks are invoked in
\* the order of their onAfter calls, each with the Command of the dispatch and
\* the Result its plugin chain produced.
C9_HookOrder ==
  /\ \A k \in 1..Len(d.trace) :
       d.trace[k].ev = "hook" =>
         /\ d.trace[k].cmd = d.cmd
         /\ d.trace[k].res = d.result
         /\ \A j \in k..Len(d.trace) : d.trace[j].ev = "hook"
  /\ \A j, k \in 1..Len(HookEvents) :
       j < k => HookEvents[j].reg < HookEvents[k].reg
  /\ (d.pc = "done" /\ d.mid = 0) =>
       /\ Len(HookEvents) = Len(afterHooks)
       /\ \A k \in 1..Len(afterHooks) :
            /\ HookEvents[k].who = afterHooks[k].fn
            /\ HookEvents[k].reg = afterHooks[k].reg
C9_Witness ==
  /\ d.pc = "done" /\ Len(HookEvents) = 2
  /\ HookEvents[1].who # HookEvents[2].who

\* C10: the capability returned by use(plugin) or onAfter(hook) removes that
\* registration and no other: every other registration, also one of the same
\* function value, stays and keeps its place in the order.
C10_AsStated ==
  [][/\ \A i \in 1..Len(plugins) :
          UnsubscribePlugin(i) => plugins' = Splice(plugins, i)
     /\ \A r \in Regs(afterHooks) :
          UnsubscribeHook(r) =>
            Fns(afterHooks') = Fns(SelectSeq(afterHooks, LAMBDA s : s.reg # r))]_vars

\* C11: the capability returned by use or onAfter is idempotent: once it has
\* removed its registration, invoking it again, whatever use, onAfter and
\* capability calls came in between, leaves the plugin list and the hook list
\* unchanged.
C11_AsStated ==
  [][\A i \in 1..Len(caps.log) :
       (caps.log[i].kind \in {"use", "onAfter"} /\ Spent(i) /\ Invoke(i)) =>
         (plugins' = plugins /\ afterHooks' = afterHooks)]_vars

\* the register closures that were made for the action
RegisterCaps(a) ==
  {i \in 1..Len(caps.log) : caps.log[i].kind = "register" /\ caps.log[i].key = a}
\* a closure returned by register has taken out the last binding of the action
Deregistered(a) ==
  /\ \A i \in RegisterCaps(a) : ~caps.log[i].live
  /\ \E i \in RegisterCaps(a) : caps.log[i].by # 0
\* the Result of execute for an action without handler
IsNoHandlerFailure(r, a) ==
  /\ ~r.ok /\ r.value = Undefined
  /\ Len(r.error) = 3 /\ r.error[2] = "No handler: " /\ r.error[3] = a

\* C12: the capability returned by register removes the binding of its action
\* by key, whoever made the binding: after register(a, H1), register(a, H2)
\* and the capability of the first call, H2 is removed, and a later dispatch
\* of a invokes no handler and returns the no-handler failure.
C12_ByKey ==
  /\ [][\A i \in 1..Len(caps.log) :
          (caps.log[i].kind = "register" /\ Invoke(i)) =>
            /\ ~MapHas(handlers', caps.log[i].key)
            /\ \A e \in handlers' : e \in handlers /\ e.action # caps.log[i].key
            /\ \A e \in handlers : e.action # caps.log[i].key => e \in handlers']_vars
  /\ [](\A a \in Actions :
          (caps.on /\ Deregistered(a)) =>
            /\ ~MapHas(handlers, a)
            /\ (d.pc # "idle" /\ d.mid = 0 /\ d.args[1] = a) =>
                 /\ d.handler = NoHandlerFn
                 /\ HandlerEvents = <<>>
                 /\ (d.pc = "done" /\ AllCallNext) => IsNoHandlerFailure(d.returned, a))
C12_Witness ==
  /\ d.pc = "done" /\ d.mid = 0 /\ d.args[1] = "a" /\ AllCallNext
  /\ \E i, j \in RegisterCaps("a") :
       /\ i < j
       /\ caps.log[i].h = "H1" /\ caps.log[j].h = "HT"
       /\ caps.log[j].by = i
  /\ Deregistered("a")
  /\ IsNoHandlerFailure(d.returned, "a")

\* C13: the capability returned by register is idempotent: once it has removed
\* its binding, invoking it again, whatever register calls came in between,
\* leaves the handler registry unchanged.
C13_AsStated ==
  [][\A i \in 1..Len(caps.log) :
       (caps.log[i].kind = "register" /\ Spent(i) /\ Invoke(i)) =>
         handlers' = handlers]_vars

\* C14: the plugin chain of a dispatch is fixed when dispatch builds it: a
\* plugin added with use or removed with a capability while the dispatch is in
\* flight neither runs nor is skipped in that dispatch; the plugins that run
\* are those registered when dispatch was called, each in its place.
C14_ChainSnapshot ==
  d.pc # "idle" =>
    /\ \A k \in 1..Len(d.trace) :
         d.trace[k].ev \in {"before", "after"} =>
           /\ d.trace[k].reg \in 1..Len(d.used)
           /\ d.trace[k].who = d.used[d.trace[k].reg]
    /\ (ChainDone /\ AllCallNext) =>
         \A i \in 1..Len(d.used) : \A ev \in {"before", "after"} :
           Cardinality({k \in 1..Len(d.trace) :
                          d.trace[k].ev = ev /\ d.trace[k].reg = i}) = 1
C14_Witness ==
  /\ d.pc = "chain" /\ d.dir = "up" /\ d.depth = 1 /\ d.mid = 1
  /\ Len(d.used) = 2 /\ AllCallNext /\ d.handler # NoHandlerFn
  /\ Len(plugins) < Len(d.used) /\ plugins # SubSeq(d.used, 2, 2)
  /\ Len(ChainEvents) = 4

\* C15: the hook list of a dispatch's notify phase is an immutable snapshot:
\* every hook registered when the phase begins is invoked exactly once for
\* that dispatch even if a hook is unsubscribed while the phase is running,
\* and a hook added while the phase is running is not invoked for it.
C15_AsStated ==
  d.pc = "done" =>
    /\ \A r \in Regs(d.notify) : Cardinality(Invocations(r)) = 1
    /\ \A k \in 1..Len(d.trace) :
         d.trace[k].ev = "hook" => d.trace[k].reg \in Regs(d.notify)

\* the number of events of one kind at one place of the chain
Count(ev, i) ==
  Cardinality({k \in 1..Len(d.trace) : d.trace[k].ev = ev /\ d.trace[k].reg = i})
\* the plugins registered when dispatch was called are all of these kinds
UsedAmong(kinds) == \A i \in 1..Len(d.used) : d.used[i] \in kinds
Places(p) == {i \in 1..Len(d.used) : d.used[i] = p}

\* C16: one Command object per dispatch is shared by the plugin chain, the
\* handler and the hooks: once a plugin has changed the payload in place
\* before calling next, every later plugin, the handler and every hook of
\* that dispatch get the changed command, and a dispatch in which no plugin
\* has yet written gets the command its own arguments describe.
C16_SharedCommand ==
  \A k \in 1..Len(d.trace) :
    LET written == \E j \in 1..(k - 1) :
                     d.trace[j].ev = "before" /\ d.trace[j].who = "PT"
    IN  /\ d.trace[k].cmd.action = d.args[1]
        /\ d.trace[k].cmd.target = d.args[2]
        /\ d.trace[k].cmd.payload = IF written THEN "p2" ELSE d.args[3]
C16_Witness ==
  /\ d.pc = "done" /\ d.used = <<"PT", "P1">> /\ d.handler = "H1"
  /\ Len(HookEvents) = 1 /\ HookEvents[1].cmd.payload = "p2"
  /\ Len(HandlerEvents) = 1 /\ HandlerEvents[1].cmd.payload = "p2"
  /\ d.args[3] = "p1"
  /\ d.returned = [ok |-> TRUE, value |-> <<"value", "H1", "t1", "p2">>,
                   error |-> Undefined]

\* C17: a plugin may call next k > 1 times in one dispatch: each call runs
\* every later-registered plugin and the handler once more (k handler calls
\* in all), the calls may yield different Results, the Result the plugin
\* returns is the dispatch's Result, and the hooks run once for the dispatch.
C17_Retry ==
  \A i \in 1..Len(d.used) :
    (ChainDone /\ Places("PR") = {i} /\ UsedAmong({"P1", "PT", "PR"})
       /\ d.handler # NoHandlerFn) =>
      LET k == Count("after", i)
          last == CHOOSE n \in 1..Len(d.trace) :
                    /\ d.trace[n].ev = "after" /\ d.trace[n].reg = i
                    /\ \A m \in (n + 1)..Len(d.trace) :
                         ~(d.trace[m].ev = "after" /\ d.trace[m].reg = i)
      IN  /\ k \in 1..MaxRetries
          /\ Len(HandlerEvents) = k
          /\ Count("before", i) = 1
          /\ \A j \in 1..Len(d.used) :
               /\ j > i => (Count("before", j) = k /\ Count("after", j) = k)
               /\ j < i => (Count("before", j) = 1 /\ Count("after", j) = 1)
          /\ d.trace[last].res.ok \/ k = MaxRetries
          /\ \A n \in 1..Len(d.trace) :
               (d.trace[n].ev = "after" /\ d.trace[n].reg = i /\ n # last) =>
                 ~d.trace[n].res.ok
          /\ \A n \in 1..Len(d.trace) :
               (d.trace[n].ev = "after" /\ d.trace[n].reg < i) =>
                 d.trace[n].res =
                   IF d.trace[last].res.ok THEN d.trace[last].res ELSE RetriesExceeded
          /\ HookEvents # <<>> =>
               HookEvents[1].res =
                 IF d.trace[last].res.ok THEN d.trace[last].res ELSE RetriesExceeded
          /\ (d.pc = "done" /\ d.mid = 0) =>
               \A r \in Regs(afterHooks) : Cardinality(Invocations(r)) = 1
C17_Witness ==
  /\ d.pc = "done" /\ d.mid = 0 /\ d.used = <<"PR", "P1">> /\ d.handler = "HF"
  /\ Len(HandlerEvents) = 3 /\ Count("before", 2) = 3 /\ Count("after", 1) = 3
  /\ d.returned.ok
  /\ Len(HookEvents) = 2

\* C18: a failure raised by a plugin's own logic, before or after its call to
\* next, is not turned into a Result: it leaves dispatch as a thrown failure
\* (a rejected promise in the asynchronous bus) and no hook runs, whereas a
\* handler failure or a missing handler never makes dispatch throw.
C18_PluginFailure ==
  /\ d.pc = "threw" =>
       /\ \E i \in 1..Len(d.used) :
            d.used[i] \in {"PX", "PY"} /\ d.thrown = PluginError(d.used[i])
       /\ HookEvents = <<>>
       /\ d.returned = NoResult
  /\ (d.pc # "idle" /\ \E i \in 1..Len(d.used) : d.used[i] \in {"PX", "PY"}) =>
       ~ChainDone
  /\ (d.pc # "idle" /\ Places("PX") # {}) => HandlerEvents = <<>>
  /\ (d.pc # "idle" /\ UsedAmong({"P1", "PT", "PR"})) => d.pc # "threw"
C18_Witness ==
  /\ d.pc = "threw" /\ variant = "async" /\ d.used = <<"P1", "PY">>
  /\ d.handler = "HT" /\ Len(HandlerEvents) = 1 /\ d.awaited
  /\ d.thrown = PluginError("PY") /\ afterHooks # <<>>

\* C19: a hook is an observer only: whatever a hook does with the Command and
\* the Result it is given, dispatch returns a Result with the ok, value and
\* error the plugin chain produced, and the later hooks of the dispatch are
\* given that same Result.
C19_AsStated ==
  (d.pc = "done" /\ HookEvents # <<>>) =>
    /\ d.returned = HookEvents[1].res
    /\ \A k \in 1..Len(HookEvents) : HookEvents[k].res = HookEvents[1].res

\* C20: for the same handler, plugins (each awaiting next) and hooks, the
\* asynchronous dispatch resolves to the Result the blocking dispatch returns
\* and makes the same before, handler, after and hook invocations in the same
\* order, wherever the handler, a plugin or a hook is suspended.
C20_AsyncAsSync ==
  (d.pc = "done" /\ d.mid = 0) =>
    LET s == SyncDispatch(d.args[1], d.args[2], d.args[3], d.handler, d.used,
                          afterHooks)
    IN  /\ d.trace = s.trace
        /\ d.returned = s.returned
        /\ d.sink = s.sink
C20_Witness ==
  /\ variant = "async" /\ d.pc = "done" /\ d.mid = 0 /\ d.awaited
  /\ Len(d.used) = 3 /\ d.handler = "H1" /\ AllCallNext
  /\ Len(HookEvents) = 2 /\ HookEvents[1].who = "KT"
  /\ d.returned.ok

\* what the blocking dispatch would do with the arguments of flow f, the
\* handler bound and the plugins registered when f was called
Alone(f) == SyncDispatch(f.args[1], f.args[2], f.args[3], f.handler, f.used, <<>>)
HooksOf(f) == SelectSeq(f.trace, LAMBDA e : e.ev = "hook")
FirstHook(f) == CHOOSE i \in 1..Len(f.trace) :
                  f.trace[i].ev = "hook" /\ \A j \in 1..(i - 1) : f.trace[j].ev # "hook"
\* the hook invocations of flow f: each was given the command f was called
\* with and the Result of f's own chain, each came after the whole of f's
\* chain, and f's promise resolves, to that Result, only when the last hook
\* it awaited has settled
OwnHooks(f) ==
  f.pc # "idle" =>
    /\ \A i \in 1..Len(f.trace) :
         f.trace[i].ev = "hook" =>
           /\ f.trace[i].cmd = MakeCmd(f.args[1], f.args[2], f.args[3])
           /\ f.trace[i].res = Alone(f).returned
           /\ \A j \in i..Len(f.trace) : f.trace[j].ev = "hook"
    /\ HooksOf(f) # <<>> => SubSeq(f.trace, 1, FirstHook(f) - 1) = Alone(f).trace
    /\ f.pending.kind # "none" => f.returned = NoResult
    /\ f.pc = "done" =>
         /\ f.pending.kind = "none"
         /\ f.returned = Alone(f).returned
         /\ HooksOf(f) = SyncHooks(f.notify, MakeCmd(f.args[1], f.args[2], f.args[3]),
                                    Alone(f).returned)

\* C21: with two dispatches in flight together on the asynchronous bus, each
\* resumed at its awaits in any order, every hook invocation is given the
\* command and the Result of the dispatch that made it, comes after the whole
\* plugin chain of that dispatch, and has settled before that dispatch's
\* promise resolves
C21_OwnHooks == OwnHooks(d) /\ OwnHooks(parked)
\* one dispatch has finished, with two hook invocations, while another,
\* called with another command and with a Result of the other kind, is still
\* awaiting its first hook
C21_Witness ==
  /\ d.pc = "done" /\ Len(HooksOf(d)) = 2
  /\ parked.pc = "hooks" /\ Len(HooksOf(parked)) = 1 /\ parked.pending.kind # "none"
  /\ d.args # parked.args
  /\ d.returned.ok # parked.result.ok
  /\ Len(d.used) = 1

\* C22 as stated: every dispatch that has started eventually finishes, with
\* a Result or with a plugin failure, when every handler, plugin and hook
\* invocation terminates and the steps of the dispatch are scheduled fairly
C22_AsStated == InFlight ~> (d.pc \in {"done", "threw"})
\* the same, for a dispatch none of whose hooks registers a hook
C22_PlainHooks ==
  (InFlight /\ \A i \in 1..Len(afterHooks) : afterHooks[i].fn = "K")
    ~> (d.pc \in {"done", "threw"})

\* next() has returned to the history plugin of the dispatch in flight
HistoryAt ==
  /\ d.pc = "chain" /\ d.dir = "up" /\ d.depth \in 1..Len(d.chain)
  /\ d.chain[d.depth] = "history"
\* the last n elements of s
LastN(s, n) == IF Len(s) <= n THEN s ELSE SubSeq(s, Len(s) - n + 1, Len(s))

\* C23: during a dispatch past and future change only when next() has
\* returned an ok Result to the history plugin for a command that passes the
\* filter; then the command becomes the last element of past and future is
\* emptied; for a failed or filtered-out command both are left as they were
C23_Track ==
  [][/\ (InFlight /\ (builtin'.past # builtin.past \/ builtin'.future # builtin.future))
          => HistoryAt /\ d.result.ok /\ (~builtin.filter \/ d.cmd.action = "a")
     /\ (HistoryAt /\ d' # d) =>
          IF d.result.ok /\ (~builtin.filter \/ d.cmd.action = "a")
            THEN /\ builtin'.future = <<>>
                 /\ builtin.maxSize > 0 =>
                      /\ builtin'.past # <<>>
                      /\ builtin'.past[Len(builtin'.past)] = d.cmd
                      /\ Len(builtin'.past) \in {Len(builtin.past), Len(builtin.past) + 1}
            ELSE builtin'.past = builtin.past /\ builtin'.future = builtin.future]_vars
\* a command tracked after an undo: past ends with it, the redo stack, which
\* the undo had filled, is empty; the plugin was made with a filter
C23_Witness ==
  /\ d.pc = "done" /\ d.returned.ok
  /\ \E i \in 1..Len(d.used) : d.used[i] = "history"
  /\ builtin.filter /\ builtin.maxSize = 2
  /\ Len(builtin.past) = 2 /\ builtin.past[2] = d.cmd /\ builtin.past[1] # d.cmd
  /\ builtin.future = <<>>
  /\ builtin.out = builtin.past[1]

\* C24: past never holds more than maxSize commands, and a tracked command
\* leaves in past the maxSize most recent of the commands past held and the
\* new one, in their order (the oldest is dropped when the limit is passed)
C24_MaxSize ==
  /\ [](Len(builtin.past) <= builtin.maxSize)
  /\ [][(HistoryAt /\ d' # d /\ d.result.ok /\ (~builtin.filter \/ d.cmd.action = "a"))
          => builtin'.past = LastN(Append(builtin.past, d.cmd), builtin.maxSize)]_vars
\* past is full and the tracked command of the finished dispatch has pushed
\* the oldest one out
C24_Witness ==
  /\ d.pc = "done" /\ d.returned.ok
  /\ builtin.maxSize = 2 /\ Len(builtin.past) = 2
  /\ builtin.past[2] = d.cmd
  /\ builtin.gone # Undefined
  /\ builtin.gone # builtin.past[1] /\ builtin.gone # builtin.past[2]
  /\ builtin.past[1] # builtin.past[2]

\* C25: undo on a non-empty past takes its last command, pushes it onto
\* future and returns it; redo on a non-empty future does the reverse; redo
\* right after undo gives back the same past and future; on an empty stack
\* each returns undefined and changes neither; getState reports canUndo and
\* canRedo as past and future being non-empty
C25_UndoRedo ==
  LET b == builtin
      u == Undo(b)
      r == Redo(b)
      s == GetState(b)
  IN  /\ b.past # <<>> =>
           /\ u.out = b.past[Len(b.past)]
           /\ u.past = SubSeq(b.past, 1, Len(b.past) - 1)
           /\ u.future = Append(b.future, b.past[Len(b.past)])
           /\ Redo(u).past = b.past /\ Redo(u).future = b.future
           /\ Redo(u).out = u.out
      /\ b.past = <<>> =>
           u.out = Undefined /\ u.past = b.past /\ u.future = b.future
      /\ b.future # <<>> =>
           /\ r.out = b.future[Len(b.future)]
           /\ r.future = SubSeq(b.future, 1, Len(b.future) - 1)
           /\ r.past = Append(b.past, b.future[Len(b.future)])
           /\ Undo(r).past = b.past /\ Undo(r).future = b.future
      /\ b.future = <<>> =>
           r.out = Undefined /\ r.past = b.past /\ r.future = b.future
      /\ s.past = b.past /\ s.future = b.future
      /\ s.canUndo = (b.past # <<>>) /\ s.canRedo = (b.future # <<>>)
\* undo has just returned the second of two different tracked commands,
\* which is now on future, the first being still in past
C25_Witness ==
  /\ builtin.out # Undefined
  /\ Len(builtin.past) = 1 /\ Len(builtin.future) = 1
  /\ builtin.future[1] = builtin.out
  /\ builtin.past[1] # builtin.out
  /\ d.pc = "idle"

\* two commands have the same action and targets with the same JSON text
SameJson(c1, c2) ==
  c1.action = c2.action /\ JsonStringify(c1.target) = JsonStringify(c2.target)
\* a later dispatch, for a target with the same JSON text, came after entry i
Superseded(i) ==
  \E j \in (i + 1)..Len(builtin.asked) :
    SameJson(builtin.asked[j].cmd, builtin.asked[i].cmd)
\* the dispatch of entry e is waiting for its run: a timer is pending that
\* will run next() with the command of e, wait after e was dispatched
Waiting(e) ==
  \E t \in builtin.timers :
    t.val.cmd = e.cmd /\ t.val.at = e.at + builtin.wait
\* this step is the callback of the timer of key k
Fires(k) == EntryHas(builtin.timers, k) /\ ~EntryHas(builtin'.timers, k)
HandlerRuns(trace) == SelectSeq(trace, LAMBDA e : e.ev = "handler")
\* what debounce does apart from keeping targets apart
DebounceBurst ==
  /\ [](/\ \A t \in builtin.timers : t.val.at >= builtin.now
        /\ \A t \in builtin.timers :
             \E i \in 1..Len(builtin.asked) :
               /\ ~builtin.asked[i].ran /\ ~Superseded(i)
               /\ builtin.asked[i].cmd = t.val.cmd
               /\ t.val.at = builtin.asked[i].at + builtin.wait
               /\ t.key = <<t.val.cmd.action, ":", JsonStringify(t.val.cmd.target)>>
        /\ (d.pc = "done" /\ d.cmd.action \in ActionSet) => HandlerRuns(d.trace) = <<>>
        /\ (d.pc = "done" /\ d.cmd.action \notin ActionSet) =>
             /\ Len(HandlerRuns(d.trace)) = 1
             /\ HandlerRuns(d.trace)[1].cmd = ArgsCmd
             /\ d.returned = Alone(d).returned)
  /\ [][/\ \A k \in {t.key : t \in builtin.timers} :
             Fires(k) =>
               LET t == EntryGet(builtin.timers, k)
               IN  /\ builtin.now >= t.at
                   /\ d'.pc = "fired"
                   /\ Len(HandlerRuns(d'.trace)) = 1
                   /\ HandlerRuns(d'.trace)[1].cmd = t.cmd
                   /\ EntryHas(builtin'.results, k)
                   /\ EntryGet(builtin'.results, k) = d'.result
                   /\ \A o \in builtin.timers : o.key # k => o \in builtin'.timers
         /\ (InFlight /\ builtin'.timers # builtin.timers) =>
             /\ d.cmd.action \in ActionSet
             /\ \A o \in builtin.timers :
                  ~SameJson(o.val.cmd, d.cmd) => o \in builtin'.timers
             /\ \A o \in builtin'.timers :
                  ~SameJson(o.val.cmd, d.cmd) => o \in builtin.timers]_vars

\* C26, with targets told apart by their JSON text: the latest dispatch of a
\* debounced action among those whose targets have the same JSON text is
\* waiting for its run until a timer has run next() for its command; the
\* timer runs wait after that dispatch, not before, with its command, and
\* the handler runs once; no dispatch of a debounced action runs the handler
\* itself; a dispatch or a timer of one key leaves the timers of the other
\* keys alone; actions not in the list run their handler in the dispatch
C26_ByJson ==
  /\ DebounceBurst
  /\ [](\A i \in 1..Len(builtin.asked) :
          (~builtin.asked[i].ran /\ ~Superseded(i)) => Waiting(builtin.asked[i]))
\* a timer has run, wait after the last of two dispatches one time unit
\* apart for the same target, with the payload of the last, while a dispatch
\* for another target is still waiting
C26_Witness ==
  /\ d.pc = "fired" /\ d.cmd = MakeCmd("a", "t1", "p2")
  /\ Len(HandlerRuns(d.trace)) = 1
  /\ builtin.now = MaxTime
  /\ \E t \in builtin.timers : t.val.cmd.target = "t2"
  /\ Len(d.chain) = 2
\* C26 as stated: dispatches for different targets are debounced
\* independently, so the latest dispatch for every (action, target) is
\* waiting for its run until a timer has run next() for its command
C26_AsStated ==
  \A i \in 1..Len(builtin.asked) :
    ~builtin.asked[i].ran => Waiting(builtin.asked[i])

\* C27 as stated: a finished dispatch of a debounced action has not run the
\* handler and has returned { ok: true, value: { pending: true, key } }
C27_AsStated ==
  (d.pc = "done" /\ d.cmd.action \in ActionSet) =>
    /\ HandlerRuns(d.trace) = <<>>
    /\ d.returned.ok
    /\ d.returned.value = [pending |-> TRUE, key |-> Key(d.cmd)]

\* the wrapper of throttle is about to call the plugin with the command of
\* this dispatch
ThrottleCall ==
  /\ d.pc = "chain" /\ d.dir = "down" /\ d.depth \in 1..Len(d.chain)
  /\ ChainAt(d, plugins, d.depth) = "throttle"
\* in this step the plugin called next() / returned the throttled Result
CalledNext == d'.pc = "chain" /\ d'.dir = "down" /\ d'.depth = d.depth + 1
HeldBack ==
  /\ d'.pc \in {"chain", "hooks"} /\ d'.depth = d.depth - 1
  /\ d'.result.ok
  /\ d'.result.value.throttled /\ d'.result.value.key = Key(d.cmd)
\* the clock at the latest executed dispatch among the entries es
LatestExec(es) ==
  LET ts == {e.exec[1] : e \in {x \in es : x.exec # <<>>}}
  IN  IF ts = {} THEN <<>> ELSE <<CHOOSE t \in ts : \A u \in ts : u <= t>>
AskedFor(same(_)) ==
  {builtin.asked[i] : i \in {j \in 1..Len(builtin.asked) : same(builtin.asked[j])}}

\* C28 as stated: the first dispatch ever made for a key of a throttled
\* action executes: throttle calls next(), the handler is invoked once and
\* what dispatch returns is not the throttled Result
C28_AsStated ==
  \A i \in 1..Len(builtin.asked) :
    LET e == builtin.asked[i]
    IN  (d.pc = "done" /\ d.cmd.action \in ActionSet
         /\ e.action = d.cmd.action /\ e.target = d.cmd.target /\ e.first) =>
          /\ Len(HandlerRuns(d.trace)) = 1
          /\ e.exec = <<builtin.now>>
          /\ d.returned # Throttled(Key(d.cmd), builtin.wait - builtin.now)

\* C29 as stated, targets being throttled independently: a dispatch of a
\* throttled action for a target is held back when the last executed
\* dispatch for that target was less than wait ago and calls next() when it
\* was wait or more ago
C29_AsStated ==
  [][\A e \in AskedFor(LAMBDA x : x.action = d.cmd.action /\ x.target = d.cmd.target) :
       (ThrottleCall /\ d.cmd.action \in ActionSet /\ e.exec # <<>>) =>
         IF builtin.now - e.exec[1] >= builtin.wait THEN CalledNext ELSE HeldBack]_vars
\* the same with targets told apart by their JSON text, and: an action not in
\* the list is never held back
C29_ByJson ==
  [][ThrottleCall =>
       LET last == LatestExec(AskedFor(LAMBDA x : SameJson(x.cmd, d.cmd)))
       IN  IF d.cmd.action \notin ActionSet THEN CalledNext
           ELSE last # <<>> =>
                  IF builtin.now - last[1] >= builtin.wait
                    THEN CalledNext /\ builtin'.lastRun # builtin.lastRun
                    ELSE HeldBack /\ builtin'.lastRun = builtin.lastRun]_vars
\* a dispatch was held back and a later one for the same target, wait after
\* the executed one, ran the handler
C29_Witness ==
  /\ d.pc = "done" /\ d.cmd = MakeCmd("a", "t1", "p2")
  /\ Len(HandlerRuns(d.trace)) = 1
  /\ builtin.wait = 2 /\ builtin.now = MaxTime
  /\ EntryHas(builtin.lastRun, Key(d.cmd))

\* the wrapper of validator is about to call the plugin
ValidatorCall ==
  /\ d.pc = "chain" /\ d.dir = "down" /\ d.depth \in 1..Len(d.chain)
  /\ ChainAt(d, plugins, d.depth) = "validator"
\* the rule of the action of the command exists and returns a message
Message(cmd) ==
  IF cmd.action = "a" /\ cmd.payload = "p2" THEN <<"Invalid">> ELSE <<>>
\* the depth of validator in the chain of the dispatch, 0 if it is not there
ValidatorDepth ==
  IF \E i \in 1..Len(d.chain) : d.chain[i] = "validator"
    THEN CHOOSE i \in 1..Len(d.chain) : d.chain[i] = "validator"
    ELSE 0

C31_SharedBus ==
  /\ [](/\ vapor.got # <<0>>
        /\ (vapor.got = <<>> /\ vapor.lastSet = <<>>) => vapor.sharedBus = 0
        /\ (vapor.got # <<>> /\ vapor.lastSet # <<>>) => vapor.got = vapor.lastSet)
  /\ [][/\ (vapor.got # <<>> /\ vapor'.got # <<>>) =>
              vapor'.got = vapor.got
        /\ (vapor.got = <<>> /\ vapor'.got # <<>> /\ vapor.lastSet = <<>>) =>
              (vapor'.made = vapor.made + 1 /\ vapor'.got = <<vapor'.made>>)]_vars
\* the shared bus was made lazily after the caller had made buses of its
\* own, was replaced by one of them, and getCommandBus returned that one
C31_Witness ==
  /\ vapor.lastSet = <<1>> /\ vapor.got = <<1>>
  /\ vapor.made = 3 /\ vapor.sharedBus = 1

\* C32 as stated: loading is false whenever no dispatch made through
\* useCommand is in progress
C32_AsStated == Outside => ~vapor.loading

\* what holds of loading: when no dispatch is in progress it is true only
\* since a dispatch that ended by throwing
C32_Returned ==
  [][(Outside /\ vapor.loading)' => (d'.pc = "threw" \/ (Outside /\ vapor.loading))]_vars

\* C33 as stated: after a dispatch whose Result has ok = true lastError is
\* null, after one whose Result has ok = false it is the error of the Result
C33_AsStated ==
  (d.pc = "done" /\ parked.pc = "idle") =>
    IF d.returned.ok THEN vapor.lastError = <<>>
    ELSE vapor.lastError = <<d.returned.error>>

\* what holds of lastError: the same, for a dispatch whose handler made no
\* dispatch of its own
C33_Flat ==
  (d.pc = "done" /\ parked.pc = "idle" /\ d.mid = 0) =>
    IF d.returned.ok THEN vapor.lastError = <<>>
    ELSE vapor.lastError = <<d.returned.error>>

\* the fold of the reducer over commands, starting from the initial state
Fold(cmds) == [i \in 1..Len(cmds) |-> cmds[i].target]
\* the dispatch reached the handler of useCommandState: the handler was
\* still bound when dispatch was called and no plugin held the command back
Reached(f) ==
  /\ f.handler = "HS"
  /\ \A i \in 1..Len(f.chain) :
       f.chain[i] = "validator" =>
         ~(f.cmd.action = "a" /\ f.cmd.payload = "p2")

\* C34, for the commands that reach the handler: the state cell equals the
\* fold of the reducer, from the initial state, over the commands its handler
\* was invoked with, which are, in dispatch order, the dispatched commands of
\* its action that were dispatched while its handler was bound and that no
\* plugin blocked; each such dispatch returns ok = true with the new state as
\* value; every other dispatch leaves the state unchanged and does not
\* return the state
C34_Reached ==
  /\ [](/\ vapor.state = Fold(vapor.applied)
        /\ d.pc = "done" =>
             IF Reached(d)
               THEN /\ vapor.applied # <<>>
                    /\ vapor.applied[Len(vapor.applied)] = ArgsCmd
                    /\ d.returned = OkResult(Fold(vapor.applied))
               ELSE /\ \A i \in 1..Len(d.trace) : d.trace[i].ev # "handler" \/ d.trace[i].who # "HS"
                    /\ d.returned.ok => d.returned.value # vapor.state)
  /\ [][vapor'.state # vapor.state =>
          /\ AtHandler(d) /\ Reached(d)
          /\ vapor'.applied = Append(vapor.applied, d.cmd)]_vars
\* three commands of action a were dispatched; the first and the third
\* reached the handler, the second was blocked by validator
C34_Witness ==
  /\ d.pc = "done" /\ Len(vapor.sent) = 3
  /\ vapor.state = <<"t2", "t1">>
  /\ vapor.sent[2].payload = "p2" /\ vapor.sent[2].target = "t2"
  /\ d.returned = OkResult(<<"t2", "t1">>)
\* C34 as stated: between dispatches the state cell equals the fold of the
\* reducer over the dispatched commands of its action, in dispatch order
C34_AsStated ==
  (~InFlight /\ ~vapor.disposed /\ MapGet(handlers, "a") = "HS") =>
    vapor.state = Fold(vapor.sent)

\* C39 as stated: dispose removes only the handler useCommandState
\* registered; a handler another caller registered afterwards for the
\* action is still bound after dispose
C39_AsStated ==
  [][(vapor'.disposed /\ ~vapor.disposed /\ MapGet(handlers, "a") # "HS") =>
       MapGet(handlers', "a") = MapGet(handlers, "a")]_vars

\* C35: every handler a dispatch invokes is the handler that was bound to
\* the action argument when dispatch was called, and a dispatch called while
\* the action was unbound invokes no handler and its chain ends in the
\* no-handler failure for that action, whatever was registered or
\* unregistered since and whatever action the command carries now
C35_Resolve ==
  /\ \A i \in 1..Len(d.trace) :
       d.trace[i].ev = "handler" =>
         d.trace[i].who = d.bound.h /\ d.bound.h # NoHandlerFn
  /\ (d.pc \in {"hooks", "done"} /\ d.bound.h = NoHandlerFn) =>
       d.result = ErrResult(NoHandlerError(d.args[1]))
  /\ (d.pc \in {"hooks", "done"} /\ d.bound.h # NoHandlerFn) =>
       \E i \in 1..Len(d.trace) : d.trace[i].ev = "handler"
\* a dispatch of a invoked H1, bound when it was called, after a plugin had
\* changed the command's action to b and while a is bound to HT and b is
\* unbound
C35_Witness ==
  /\ d.pc = "done" /\ d.args[1] = "a" /\ d.cmd.action = "b"
  /\ \E i \in 1..Len(d.trace) : d.trace[i].ev = "handler" /\ d.trace[i].who = "H1"
  /\ MapGet(handlers, "a") = "HT" /\ ~MapHas(handlers, "b")
  /\ d.returned.ok

\* C36: a dispatch that a plugin's failure has left has invoked no hook; a
\* dispatch whose chain holds a plugin that throws invokes no hook and does
\* not return; every hook a dispatch has invoked was given the Result its
\* chain produced
C36_NoHookAfterThrow ==
  /\ d.pc = "threw" =>
       /\ d.thrown \in {PluginError(p) : p \in BodyPluginFns}
       /\ \A i \in 1..Len(d.trace) : d.trace[i].ev # "hook"
  /\ (\E i \in 1..Len(d.chain) : d.chain[i] \in {"PX", "PY"}) =>
       /\ d.pc # "done"
       /\ \A i \in 1..Len(d.trace) : d.trace[i].ev # "hook"
  /\ \A i \in 1..Len(d.trace) :
       d.trace[i].ev = "hook" =>
         /\ d.pc \in {"hooks", "done"}
         /\ d.trace[i].res # NoResult
\* an asynchronous dispatch on a bus with a hook was left by the failure of
\* a plugin raised after the handler had run
C36_Witness ==
  /\ d.pc = "threw" /\ variant = "async" /\ Len(afterHooks) > 0
  /\ d.thrown = PluginError("PY")
  /\ \E i \in 1..Len(d.trace) : d.trace[i].ev = "handler"

\* the hooks of flow f whose outcome the loop has taken: all the hooks it has
\* started but the one it is awaiting
SettledHooks(f) ==
  IF f.pc = "hooks" /\ f.pending.kind # "none"
    THEN SubSeq(HooksOf(f), 1, Len(HooksOf(f)) - 1)
    ELSE HooksOf(f)
\* the failures of these hooks, in order
Rejections(hs) ==
  LET ks == SelectSeq(hs, LAMBDA x : HookBody(x.who).kind = "throw")
  IN  [i \in 1..Len(ks) |-> HookBody(ks[i].who).v]
OneAtATime(f) ==
  f.pc \in {"hooks", "done"} =>
    /\ f.pending.kind # "none" =>
         /\ f.pc = "hooks" /\ f.susp
         /\ HooksOf(f) # <<>>
         /\ f.pending = HookBody(HooksOf(f)[Len(HooksOf(f))].who)
    /\ f.sink = Rejections(SettledHooks(f))
    /\ f.pc = "done" =>
         /\ f.pending.kind = "none"
         /\ f.returned = f.result
         /\ f.sink = Rejections(HooksOf(f))
\* C37: of the hooks an asynchronous dispatch has started at most the last
\* is unsettled, the outcome of every earlier one was taken (its rejection
\* logged) before the next was started, in the order they were started, and
\* a dispatch that has resolved has no unsettled hook
C37_OneAtATime == variant = "async" => OneAtATime(d) /\ OneAtATime(parked)
\* the second hook of an asynchronous dispatch is awaited, its promise
\* rejected, after the rejection of the first was logged, while another
\* dispatch has resolved
C37_Witness ==
  /\ variant = "async" /\ parked.pc = "hooks" /\ parked.pending.kind = "throw"
  /\ Len(HooksOf(parked)) = 2 /\ Len(parked.sink) = 1
  /\ d.pc = "done" /\ Len(HooksOf(d)) = 2 /\ Len(d.sink) = 2

\* the cells of useCommandHistory agree with each other
Consistent(h) ==
  /\ h.canUndo <=> h.past # <<>>
  /\ h.canRedo <=> h.future # <<>>
  /\ Len(h.past) <= h.maxSize
\* C38 as stated: for any maxSize >= 0, between the calls canUndo is true
\* exactly when past is non-empty, canRedo exactly when future is non-empty,
\* and past holds at most maxSize commands
C38_AsStated == ~InFlight => Consistent(vapor.hist)
\* what holds of the cells: the same for maxSize >= 1, and for every maxSize
\* all of it but canUndo, which is also true after a tracked command that
\* maxSize = 0 dropped at once
C38_Positive ==
  ~InFlight =>
    /\ vapor.hist.maxSize >= 1 => Consistent(vapor.hist)
    /\ vapor.hist.canRedo <=> vapor.hist.future # <<>>
    /\ Len(vapor.hist.past) <= vapor.hist.maxSize
    /\ vapor.hist.past # <<>> => vapor.hist.canUndo

\* C40 as stated: on a bus with debounce and a hook, a handler execution the
\* timer of debounce has run has notified the hook of its Result, and the
\* Result the hook of a debounced dispatch was given is the Result of a
\* handler execution
C40_AsStated ==
  /\ (d.pc = "fired" /\ afterHooks # <<>>) =>
       \E i \in 1..Len(d.trace) : d.trace[i].ev = "hook" /\ d.trace[i].res = d.result
  /\ (d.pc = "done" /\ d.cmd.action \in ActionSet) =>
       \A i \in 1..Len(d.trace) :
         d.trace[i].ev = "hook" =>
           \E j \in 1..(i - 1) : d.trace[j].ev = "handler"
\* what holds instead: the hook of a debounced dispatch is given what
\* debounce returned, before any handler has run for that dispatch, and the
\* execution the timer runs invokes no hook
C40_Unnotified ==
  /\ d.pc = "fired" => \A i \in 1..Len(d.trace) : d.trace[i].ev # "hook"
  /\ (d.pc \in {"hooks", "done"} /\ d.cmd.action \in ActionSet) =>
       \A i \in 1..Len(d.trace) : d.trace[i].ev # "handler"

TypeOK ==
  /\ variant \in Variants
  /\ d.pc \in {"idle", "chain", "awaitHandler", "hooks", "done", "threw", "fired"}
  /\ Len(plugins) <= MaxPlugins
  /\ Len(afterHooks) <= MaxHooks
  /\ Len(caps.log) <= MaxCaps
====
